---- MODULE Spec2Model ----
(***************************************************************************)
(* AIExamSaathi: the real-time voice session pipeline.                     *)
(*                                                                         *)
(* Two UI surfaces hold a voice session:                                   *)
(*   - the App's floating mini-companion (src/types.ts, the App component: *)
(*     startVoiceSession / stopVoiceSession / the voice useEffect);        *)
(*   - the full-screen AssistantView (src/services/geminiService.ts, the   *)
(*     AssistantView component: startLiveSession / stopLiveSession /       *)
(*     toggleLiveMode).                                                    *)
(*                                                                         *)
(* JavaScript is single-threaded: every action below is one task of the    *)
(* event loop (a click, a resolved getUserMedia, a WebSocket event) with   *)
(* the microtasks it triggers.  A handler is a pure function from the      *)
(* state (a record of all variables, World) to the state; an action        *)
(* commits the result of the handlers it runs.                             *)
(*                                                                         *)
(* The @google/genai SDK (not part of the repository) is the environment:  *)
(* live.connect() opens a WebSocket, calls callbacks.onopen from the       *)
(* socket's open event and resolves the session promise in the microtasks  *)
(* of that same event; it never resolves when the socket fails to open.    *)
(***************************************************************************)
EXTENDS Integers, Sequences, FiniteSets, TLC

\* ------------------------------------------------------------- bounds
\* start invocations (startVoiceSession + startLiveSession) in one behaviour
MaxStarts == 2
\* AssistantView instances mounted in one behaviour
MaxMounts == 1
\* tool invocations received in one behaviour
MaxTools == 1
\* callbacks waiting on one unresolved session promise
MaxQueue == 2
\* playback sources created in a run
MaxSources == 3
\* longest audio chunk, in ticks of the output clock
MaxDur == 3
\* last tick of an output clock
MaxClock == 2
\* inbound transcript messages delivered in a run
MaxMsgs == 4
\* inbound interrupted signals delivered in a run
MaxInterrupts == 1
\* teardown calls that throw
MaxFaults == 1
\* frames the capture nodes produce in a run
MaxFrames == 3
\* calls of handleSpeakText in a run
MaxSpeaks == 2
\* code units by which a spoken text is longer or shorter than the cap
MaxExcess == 2
\* samples in a frame (4096 in the code)
FrameLen == 2

Calls == 1..MaxStarts
\* surface instances: 0 is the App (mini-companion), i >= 1 the i-th
\* AssistantView instance (each mount creates fresh refs and state)
Inst == 0..MaxMounts
AvInst == 1..MaxMounts

Views == {"DASHBOARD", "NOTES_GENERATOR", "QUIZ", "HISTORY", "PLANNER",
          "POMODORO", "AI_ASSISTANT"}
\* the views the user's clicks go to in the model (a tool call can set the others)
UserViews == {"DASHBOARD", "QUIZ", "AI_ASSISTANT"}
ToolNames == {"generate_notes", "start_quiz", "show_history", "set_pomodoro",
              "get_motivation", "go_home", "unknown_tool"}

VARIABLES
  \* ---- App component state (src/types.ts 141-165)
  view,               \* state.view
  isAssistantOpen,
  assistantMode,      \* "CHAT" | "VOICE"
  isVoiceActive,
  motivationRequests, \* number of handleQuickAction('MOTIVATION') calls
  \* ---- AssistantView component state, per instance (geminiService.ts 289-311)
  avCount,            \* instances created so far; the mounted one is avCount
  isLive,
  statusText,
  error,
  \* ---- refs, per surface instance (index 0: the App's refs;
  \*      scriptProcessorRef[0] is (window as any)._scriptProcessor)
  sessionPromiseRef,  \* 0 = null, else the start invocation whose promise it holds
  streamRef,
  scriptProcessorRef,
  \* ---- one entry per start invocation k: the objects it creates
  nCalls,             \* start invocations so far
  startsLeft,         \* start invocations the model still allows
  owner,              \* the surface instance that made invocation k
  pc,                 \* "idle" | "gum" (awaiting getUserMedia) | "done" |
                      \* "failed" (ended in the catch block)
  stream,             \* MediaStream k: "none" | "live" | "stopped"
  conn,               \* WebSocket k: "none" | "connecting" | "open" | "closing"
                      \* (closed by session.close()) | "failed" (closing after
                      \* an error) | "closed"
  promise,            \* session promise k: "none" | "pending" | "fulfilled"
  thenQ,              \* callbacks waiting on session promise k, in order
  proc,               \* ScriptProcessorNode k: "none" | "connected" | "disconnected"
  \* ---- tool-call protocol
  toolCalls,          \* invocations received: <<[id, name, sess]>>
  toolResponses,      \* responses sent: <<[id, name, result, sess]>>
  \* ---- ghost: for invocation k, the session that was Active and current
  \*      on its surface when the start was requested (0: none)
  prior,
  \* ---- environment: the browser offers navigator.mediaDevices.getUserMedia
  mediaSupported,
  \* ---- ghost: a stop ran on invocation k's surface while k was pending
  \*      (awaiting getUserMedia or the connection's open)
  cancelled,
  \* ---- playback, per surface instance
  now,                \* audioContexts.current.output.currentTime, in ticks
  outSuspended,       \* the output context's state is 'suspended'
  nextStartTime,
  sources,            \* the active-sources set (indices into src)
  src,                \* every AudioBufferSourceNode created:
                      \* <<[surf, start, dur, at, first, state, cleared]>>
                      \* (cleared: it was in the active-sources set when
                      \* the set was cleared)
  clockReset,         \* ghost: nextStartTime was set to 0 since the last chunk
  pendingMsgs,        \* onmessage handlers suspended at `await outCtx.resume()`:
                      \* <<[k, m]>> with, as ghosts, the playback clock and
                      \* the active sources the handler left (nst, sources)
                      \* and whether the handler of a later message of its
                      \* session has begun since (overtaken), and whether
                      \* an interrupted signal of its session has been
                      \* handled since (interrupted)
  isSpeaking, isThinking,
  \* ---- transcripts: AssistantView refs and state, App state
  userTextBuffer, aiTextBuffer, currentTurnUserText, currentTurnAiText,
  messages,
  voiceTranscription,
  \* ---- inbound transcript messages and interrupted signals the model
  \*      still delivers
  msgsLeft, interruptsLeft,
  \* ---- ghost: per surface instance, the last turn completion (if any),
  \*      then the session starts and the parts of inbound messages handled
  \*      since, in order
  log,
  \* ---- ghost: the events before the last turn completion, the buffers it
  \*      found and the messages it appended
  lastTurn,
  \* ---- ghost: per surface instance, the last stop call since the last
  \*      start: the steps that were due when it began (due: "a" a capture
  \*      node to disconnect, "b" microphone tracks to stop, "c" a session to
  \*      close, "d" the playback state to clear, "e" the state to set
  \*      inactive), the session to close (sess, 0: none) and the steps
  \*      attempted so far, in order (steps)
  teardown,
  \* ---- environment: the teardown calls on the assistant view's objects
  \*      that throw ("a" disconnect(), "b" track.stop(), "c" session.close());
  \*      "s": stop() throws on a source that has played to its end
  failing,
  \* ---- capture: per start invocation, the frames its capture node has
  \*      produced (ghost) and the frames passed to session.sendRealtimeInput,
  \*      in order; per assistant view instance, micActivity in hundredths
  captured, sent, micActivity,
  framesLeft,         \* frames the model still produces
  \* ---- ghost: per surface instance, the last message handled if its
  \*      inline audio does not decode into whole samples (<<[m, nsrc]>>,
  \*      nsrc the sources created before it), else <<>>
  lastBad,
  \* ---- text to speech (App): the state of audioContexts.current.tts
  \*      ("none" | "suspended" | "running") and one entry per call of
  \*      handleSpeakText: where it is (pc: "resume" | "speech" | "done"), the
  \*      endpoint's reply and what generateSpeech made of it, the duration
  \*      the call resolved to and the sources it started
  ttsCtx, speak,
  \* ---- the focus timer (PomodoroTimer): its state and whether the
  \*      interval of its effect is set; while the component is not on
  \*      screen, the state its next mount starts with
  timeLeft, isActive, mode, interval,
  lastAlert           \* ghost: the alert() the timer showed last since it
                      \* was mounted ("none" | "break" | "focus")

vars == <<view, isAssistantOpen, assistantMode, isVoiceActive, motivationRequests,
          avCount, isLive, statusText, error,
          sessionPromiseRef, streamRef, scriptProcessorRef,
          nCalls, startsLeft, owner, pc, stream, conn, promise, thenQ, proc,
          toolCalls, toolResponses, prior, cancelled, mediaSupported,
          now, outSuspended, nextStartTime, sources, src, clockReset,
          pendingMsgs, isSpeaking, isThinking,
          userTextBuffer, aiTextBuffer, currentTurnUserText, currentTurnAiText,
          messages, voiceTranscription, msgsLeft, interruptsLeft, log, lastTurn,
          teardown, failing, captured, sent, micActivity, framesLeft, lastBad,
          ttsCtx, speak, timeLeft, isActive, mode, interval,
          lastAlert>>

\* The state as one record, for the handlers to transform.  ovf is set when
\* a handler would exceed a bound; such a step is not taken.  navBack is set
\* when handleManualBack's onBack() is due at the end of the task.  thrown is
\* set while an exception propagates.
World ==
  [view |-> view, isAssistantOpen |-> isAssistantOpen, assistantMode |-> assistantMode,
   isVoiceActive |-> isVoiceActive, motivationRequests |-> motivationRequests,
   avCount |-> avCount, isLive |-> isLive, statusText |-> statusText, error |-> error,
   sessionPromiseRef |-> sessionPromiseRef, streamRef |-> streamRef,
   scriptProcessorRef |-> scriptProcessorRef,
   nCalls |-> nCalls, startsLeft |-> startsLeft, owner |-> owner, pc |-> pc, stream |-> stream, conn |-> conn,
   promise |-> promise, thenQ |-> thenQ, proc |-> proc,
   toolCalls |-> toolCalls, toolResponses |-> toolResponses, prior |-> prior,
   cancelled |-> cancelled, mediaSupported |-> mediaSupported,
   now |-> now, outSuspended |-> outSuspended, nextStartTime |-> nextStartTime,
   sources |-> sources, src |-> src, clockReset |-> clockReset,
   pendingMsgs |-> pendingMsgs, isSpeaking |-> isSpeaking, isThinking |-> isThinking,
   userTextBuffer |-> userTextBuffer, aiTextBuffer |-> aiTextBuffer,
   currentTurnUserText |-> currentTurnUserText,
   currentTurnAiText |-> currentTurnAiText, messages |-> messages,
   voiceTranscription |-> voiceTranscription, msgsLeft |-> msgsLeft,
   interruptsLeft |-> interruptsLeft,
   log |-> log, lastTurn |-> lastTurn, teardown |-> teardown,
   failing |-> failing, captured |-> captured, sent |-> sent,
   micActivity |-> micActivity, framesLeft |-> framesLeft, lastBad |-> lastBad,
   ttsCtx |-> ttsCtx, speak |-> speak,
   timeLeft |-> timeLeft, isActive |-> isActive, mode |-> mode,
   interval |-> interval, lastAlert |-> lastAlert,
   ovf |-> FALSE, navBack |-> FALSE, thrown |-> FALSE]

Commit(w) ==
  /\ ~w.ovf
  /\ view' = w.view
  /\ isAssistantOpen' = w.isAssistantOpen
  /\ assistantMode' = w.assistantMode
  /\ isVoiceActive' = w.isVoiceActive
  /\ motivationRequests' = w.motivationRequests
  /\ avCount' = w.avCount
  /\ isLive' = w.isLive
  /\ statusText' = w.statusText
  /\ error' = w.error
  /\ sessionPromiseRef' = w.sessionPromiseRef
  /\ streamRef' = w.streamRef
  /\ scriptProcessorRef' = w.scriptProcessorRef
  /\ nCalls' = w.nCalls
  /\ startsLeft' = w.startsLeft
  /\ owner' = w.owner
  /\ pc' = w.pc
  /\ stream' = w.stream
  /\ conn' = w.conn
  /\ promise' = w.promise
  /\ thenQ' = w.thenQ
  /\ proc' = w.proc
  /\ toolCalls' = w.toolCalls
  /\ toolResponses' = w.toolResponses
  /\ prior' = w.prior
  /\ cancelled' = w.cancelled
  /\ mediaSupported' = w.mediaSupported
  /\ now' = w.now
  /\ outSuspended' = w.outSuspended
  /\ nextStartTime' = w.nextStartTime
  /\ sources' = w.sources
  /\ src' = w.src
  /\ clockReset' = w.clockReset
  /\ pendingMsgs' = w.pendingMsgs
  /\ isSpeaking' = w.isSpeaking
  /\ isThinking' = w.isThinking
  /\ userTextBuffer' = w.userTextBuffer
  /\ aiTextBuffer' = w.aiTextBuffer
  /\ currentTurnUserText' = w.currentTurnUserText
  /\ currentTurnAiText' = w.currentTurnAiText
  /\ messages' = w.messages
  /\ voiceTranscription' = w.voiceTranscription
  /\ msgsLeft' = w.msgsLeft
  /\ interruptsLeft' = w.interruptsLeft
  /\ log' = w.log
  /\ lastTurn' = w.lastTurn
  /\ teardown' = w.teardown
  /\ failing' = w.failing
  /\ captured' = w.captured
  /\ sent' = w.sent
  /\ micActivity' = w.micActivity
  /\ framesLeft' = w.framesLeft
  /\ lastBad' = w.lastBad
  /\ ttsCtx' = w.ttsCtx
  /\ timeLeft' = w.timeLeft
  /\ isActive' = w.isActive
  /\ mode' = w.mode
  /\ interval' = w.interval
  /\ lastAlert' = w.lastAlert
  /\ speak' = w.speak

\* Text is a sequence of characters.
NoText == <<>>
NoTranscription == [user |-> NoText, ai |-> NoText]
\* the assistant view's initial message (its text stands as one symbol)
Greeting == [role |-> "ai", text |-> <<"Namaste!">>]
NoTurn == [events |-> <<>>, user |-> NoText, ai |-> NoText, added |-> <<>>]

\* ghost: a transcript event of surface instance i
Event(type, text) == [type |-> type, text |-> text]
Logged(w, i, e) == [w EXCEPT !.log[i] = Append(@, e)]

\* Bind(e, F) is F applied to the value of e, evaluated once.  Handlers are
\* only ever applied to evaluated states (bound names).
Bind(e, F(_)) == CHOOSE r \in {F(x) : x \in {e}} : TRUE

\* ghost: a stop call of surface instance i begins; it attempts step s
NoTeardown == [due |-> {}, sess |-> 0, steps |-> <<>>]
StopBegins(w, i) ==
  [w EXCEPT !.teardown[i] =
     [due |-> {"d", "e"}
              \cup (IF w.scriptProcessorRef[i] # 0 THEN {"a"} ELSE {})
              \cup (IF w.streamRef[i] # 0 THEN {"b"} ELSE {})
              \cup (IF w.sessionPromiseRef[i] # 0 THEN {"c"} ELSE {}),
      sess |-> w.sessionPromiseRef[i],
      steps |-> <<>>]]
Step(w, i, s) == [w EXCEPT !.teardown[i].steps = Append(@, s)]
\* the call of step s on an object of surface instance i throws
Throws(w, i, s) == i # 0 /\ s \in w.failing

\* ------------------------------------------------------ session objects

\* A session is Active once the remote endpoint acknowledged the open.
Active(k) == conn[k] = "open" /\ promise[k] = "fulfilled"

\* The Active session the surface instance i currently refers to (0: none).
ActiveSession(i) ==
  IF sessionPromiseRef[i] # 0 /\ Active(sessionPromiseRef[i])
  THEN sessionPromiseRef[i] ELSE 0

\* session.close(): closes the WebSocket; its close event follows later.
\* Both callers swallow its exception.
SessionClose(w, k) ==
  IF w.conn[k] = "open" /\ ~Throws(w, w.owner[k], "c")
  THEN [w EXCEPT !.conn[k] = "closing"] ELSE w

\* session.sendRealtimeInput({ media }): the frame is handed to the session
SendRealtimeInput(w, k, media) == [w EXCEPT !.sent[k] = Append(@, media)]

\* session.sendToolResponse(...): sent only on an open socket.
SendToolResponse(w, k, cb) ==
  IF w.conn[k] = "open"
  THEN [w EXCEPT !.toolResponses =
          Append(@, [id |-> cb.id, name |-> cb.name, result |-> cb.result, sess |-> k])]
  ELSE w

\* React ignores state updates of an unmounted component.
Mounted(w, i) == w.view = "AI_ASSISTANT" /\ i = w.avCount

\* stopLiveSession after its await: setIsLive(false) ... setMicActivity(0)
StopLiveTail(w, i) ==
  IF Mounted(w, i)
  THEN [w EXCEPT !.isLive[i] = FALSE, !.statusText[i] = "MIRRORING INACTIVE",
                 !.isSpeaking[i] = FALSE, !.isThinking[i] = FALSE,
                 !.micActivity[i] = 0]
  ELSE w

\* stopLiveSession resumed with the session: session.close();
\* sessionPromiseRef.current = null; then the tail.
StopLiveResume(w, k) ==
  Bind(SessionClose(Step(w, w.owner[k], "c"), k), LAMBDA w1 :
  Bind([w1 EXCEPT !.sessionPromiseRef[w1.owner[k]] = 0], LAMBDA w2 :
       StopLiveTail(Step(w2, w2.owner[k], "e"), w2.owner[k])))

\* One callback registered on session promise k, run with the session.
RunCallback(w, k, cb) ==
  CASE cb.type = "close" -> SessionClose(Step(w, w.owner[k], "c"), k)
    [] cb.type = "stopLive" -> StopLiveResume(w, k)
    [] cb.type = "stopLiveBack" ->
         Bind(StopLiveResume(w, k), LAMBDA w1 : [w1 EXCEPT !.navBack = TRUE])
    [] cb.type = "tool" -> SendToolResponse(w, k, cb)
    [] cb.type = "frame" -> SendRealtimeInput(w, k, cb.media)
    [] OTHER -> w

RECURSIVE RunAll(_, _, _)
RunAll(w, k, q) ==
  IF q = <<>> THEN w
  ELSE Bind(RunCallback(w, k, Head(q)), LAMBDA w1 : RunAll(w1, k, Tail(q)))

Cb(t) == [type |-> t, id |-> 0, name |-> "", result |-> "", media |-> <<>>]
CloseCb == Cb("close")
StopLiveCb(back) == Cb(IF back THEN "stopLiveBack" ELSE "stopLive")
ToolCb(fc, result) ==
  [type |-> "tool", id |-> fc.id, name |-> fc.name, result |-> result,
   media |-> <<>>]
\* sessionPromise.then(session => session.sendRealtimeInput({ media: pcmBlob }))
FrameCb(media) == [Cb("frame") EXCEPT !.media = media]

\* promise.then(cb) / await promise: at once (a microtask of this task) when
\* the promise is fulfilled, else queued behind the callbacks already waiting.
Then(w, k, cb) ==
  IF w.promise[k] = "fulfilled" THEN RunCallback(w, k, cb)
  ELSE IF Len(w.thenQ[k]) >= MaxQueue THEN [w EXCEPT !.ovf = TRUE]
  ELSE [w EXCEPT !.thenQ[k] = Append(@, cb)]

\* ghost: a stop of surface instance i begins
MarkCancelled(w, i) ==
  [w EXCEPT !.cancelled =
     [k \in Calls |-> @[k] \/ (/\ k <= w.nCalls
                                /\ w.owner[k] = i
                                /\ (w.pc[k] = "gum" \/ w.conn[k] = "connecting"))]]

\* scriptProcessor.disconnect(); the ref = null
DisconnectProcessor(w, i) ==
  IF w.scriptProcessorRef[i] # 0
  THEN (IF Throws(w, i, "a") THEN [Step(w, i, "a") EXCEPT !.thrown = TRUE]
        ELSE [Step(w, i, "a") EXCEPT
                !.proc[w.scriptProcessorRef[i]] = "disconnected",
                !.scriptProcessorRef[i] = 0])
  ELSE w

\* streamRef.current.getTracks().forEach(t => t.stop()); streamRef.current = null
StopTracks(w, i) ==
  IF w.streamRef[i] # 0
  THEN (IF Throws(w, i, "b") THEN [Step(w, i, "b") EXCEPT !.thrown = TRUE]
        ELSE [Step(w, i, "b") EXCEPT !.stream[w.streamRef[i]] = "stopped",
                                     !.streamRef[i] = 0])
  ELSE w

\* source n has played to its end
Finished(w, n) == w.now[w.src[n].surf] >= w.src[n].start + w.src[n].dur
\* s.stop() throws for source n
StopThrows(w, n) == "s" \in w.failing /\ Finished(w, n)

\* sources.current.forEach(s => s.stop()); sources.current.clear(): the
\* first stop() that throws ends the statement
StopSourcesUnguarded(w, i) ==
  IF \E n \in w.sources[i] : StopThrows(w, n)
  THEN [w EXCEPT !.src = [n \in DOMAIN @ |->
                            IF /\ n \in w.sources[i]
                               /\ \A q \in w.sources[i] : q <= n => ~StopThrows(w, q)
                            THEN [@[n] EXCEPT !.state = "stopped", !.cleared = TRUE]
                            ELSE @[n]],
                 !.thrown = TRUE]
  ELSE [w EXCEPT !.src = [n \in DOMAIN @ |->
                            IF n \in w.sources[i]
                            THEN [@[n] EXCEPT !.state = "stopped", !.cleared = TRUE]
                            ELSE @[n]],
                 !.sources[i] = {}]
\* sources.current.forEach(s => { try { s.stop(); } catch(e) {} });
\* sources.current.clear()
StopSources(w, i) ==
  [w EXCEPT !.src = [n \in DOMAIN @ |->
                       IF n \in w.sources[i] /\ @[n].state = "scheduled"
                       THEN IF StopThrows(w, n) THEN [@[n] EXCEPT !.cleared = TRUE]
                            ELSE [@[n] EXCEPT !.state = "stopped", !.cleared = TRUE]
                       ELSE @[n]],
            !.sources[i] = {}]

KeepClock(w, i) == w
\* nextStartTime.current = 0
ResetClock(w, i) ==
  [w EXCEPT !.nextStartTime[i] = 0, !.clockReset[i] = TRUE]

\* ------------------------------------------------- App (mini-companion)

\* sessionPromiseRef.current.then(s => s.close()) on session promise k (0:
\* the ref was null): the callback is registered when stopVoiceSession
\* reaches it and runs after stopVoiceSession has returned, at the earliest
CloseLater(w, k) ==
  IF k # 0 THEN Then(w, k, CloseCb) ELSE w

stopVoiceSession(w) ==
  Bind([MarkCancelled(StopBegins(w, 0), 0) EXCEPT !.isVoiceActive = FALSE],
       LAMBDA w0 :
  Bind([Step(w0, 0, "e") EXCEPT !.sessionPromiseRef[0] = 0], LAMBDA w1 :
  Bind(StopTracks(w1, 0), LAMBDA w3 :
  Bind(DisconnectProcessor(w3, 0), LAMBDA w4 :
  Bind(Step(StopSources(w4, 0), 0, "d"), LAMBDA w5 :
  Bind([w5 EXCEPT !.voiceTranscription = NoTranscription], LAMBDA w6 :
       CloseLater(w6, w.sessionPromiseRef[0])))))))

\* A new start invocation by surface instance i, suspended at getUserMedia.
\* (The AudioContext resume() awaits before it change nothing and are
\* folded into this suspension.)
NewCall(w, i) ==
  IF w.startsLeft = 0 THEN [w EXCEPT !.ovf = TRUE]
  ELSE [w EXCEPT !.nCalls = w.nCalls + 1, !.startsLeft = @ - 1,
                 !.owner[w.nCalls + 1] = i, !.pc[w.nCalls + 1] = "gum",
                 !.teardown[i] = NoTeardown,
                 !.prior[w.nCalls + 1] = ActiveSession(i)]

\* The start function of invocation k throws where it reads or awaits
\* getUserMedia; its catch block has run.
StartFailed(w, k) == [w EXCEPT !.pc[k] = "failed"]

\* startVoiceSession up to `await navigator.mediaDevices.getUserMedia`; without
\* navigator.mediaDevices the call throws and the catch block runs
startVoiceSession(w) ==
  Bind(NewCall(w, 0), LAMBDA w1 :
       IF w1.ovf \/ w1.mediaSupported THEN w1
       ELSE StartFailed([w1 EXCEPT !.isVoiceActive = FALSE], w1.nCalls))

setView(w, v) ==
  IF v # "AI_ASSISTANT"
  THEN Bind(stopVoiceSession(w), LAMBDA w1 : [w1 EXCEPT !.view = v])
  ELSE [w EXCEPT !.view = v]

\* ------------------------------------------------------- AssistantView

SetAv(w, i, live, status, err) ==
  IF Mounted(w, i)
  THEN [w EXCEPT !.isLive[i] = live, !.statusText[i] = status, !.error[i] = err]
  ELSE w

SetStatus(w, i, status) ==
  IF Mounted(w, i) THEN [w EXCEPT !.statusText[i] = status] ELSE w

\* `if (sessionPromiseRef.current) { try { const session = await ...;
\* session.close() } catch {} ; sessionPromiseRef.current = null }` and the tail
AwaitAndClose(w, i, back) ==
  IF w.sessionPromiseRef[i] # 0
  THEN Then(w, w.sessionPromiseRef[i], StopLiveCb(back))
  ELSE Bind(StopLiveTail(Step(w, i, "e"), i), LAMBDA w1 :
            [w1 EXCEPT !.navBack = back \/ @])

\* An exception leaves the async function: its promise is rejected, which
\* no caller handles (handleManualBack's onBack() is skipped).
Rejected(w) == [w EXCEPT !.thrown = FALSE]

\* back: called by handleManualBack, which awaits it and then calls onBack()
stopLiveSession(w, i, back) ==
  Bind(SetStatus(MarkCancelled(StopBegins(w, i), i), i, "STOPPING..."), LAMBDA wa :
  Bind(StopSources(wa, i), LAMBDA wb :
  Bind(Step(ResetClock(wb, i), i, "d"), LAMBDA w0 :
  Bind(DisconnectProcessor(w0, i), LAMBDA w1 :
       IF w1.thrown THEN Rejected(w1)
       ELSE Bind(StopTracks(w1, i), LAMBDA w2 :
                 IF w2.thrown THEN Rejected(w2)
                 ELSE AwaitAndClose(w2, i, back))))))

\* startLiveSession up to `await navigator.mediaDevices.getUserMedia`
startLiveSession(w, i) ==
  IF ~w.mediaSupported
  THEN Bind(NewCall(w, i), LAMBDA w1 :
       IF w1.ovf THEN w1
       ELSE StartFailed(SetAv(w1, i, FALSE, "MIRRORING INACTIVE",
                              "Could not access microphone."), w1.nCalls))
  ELSE Bind(SetAv(w, i, TRUE, "INITIALIZING...", "null"), LAMBDA w1 : NewCall(w1, i))

toggleLiveMode(w, i) ==
  IF w.isLive[i] THEN stopLiveSession(w, i, FALSE)
  ELSE startLiveSession(w, i)

\* ------------------------------------------------------ focus timer
\* 25 * 60 and 5 * 60
FocusSeconds == 1500
BreakSeconds == 300
\* the full duration of a mode
FullDuration(m) == IF m = "FOCUS" THEN FocusSeconds ELSE BreakSeconds

handleSessionEnd(w) ==
  IF w.mode = "FOCUS"
  THEN [w EXCEPT !.isActive = FALSE, !.lastAlert = "break",
                 !.mode = "BREAK", !.timeLeft = BreakSeconds]
  ELSE [w EXCEPT !.isActive = FALSE, !.lastAlert = "focus",
                 !.mode = "FOCUS", !.timeLeft = FocusSeconds]

\* the Study Session and Quick Break buttons
selectMode(w, m) ==
  [w EXCEPT !.mode = m, !.timeLeft = FullDuration(m), !.isActive = FALSE]

toggleTimer(w) == [w EXCEPT !.isActive = ~w.isActive]
resetTimer(w) ==
  [w EXCEPT !.isActive = FALSE, !.timeLeft = FullDuration(w.mode)]

\* the timer's effect with `if (isActive)` in place of
\* `if (isActive && timeLeft > 0)`
PomodoroEffectUnguarded(w) ==
  Bind([w EXCEPT !.interval = FALSE], LAMBDA w1 :
       IF w1.isActive THEN [w1 EXCEPT !.interval = TRUE]
       ELSE IF w1.timeLeft = 0 THEN handleSessionEnd(w1)
       ELSE w1)
\* The timer's effect for the dependencies [isActive, timeLeft]: the cleanup
\* of its last run clears the interval, then the body sets a new one or
\* ends the session; the state handleSessionEnd sets is rendered and the
\* effect runs for it in turn.
RECURSIVE PomodoroEffect(_)
PomodoroEffect(w) ==
  Bind([w EXCEPT !.interval = FALSE], LAMBDA w1 :
       IF w1.isActive /\ w1.timeLeft > 0 THEN [w1 EXCEPT !.interval = TRUE]
       ELSE IF w1.timeLeft = 0 THEN PomodoroEffect(handleSessionEnd(w1))
       ELSE w1)

\* The App renders PomodoroTimer while the view is POMODORO.  Leaving the
\* view unmounts it (the cleanup clears the interval, the state is
\* dropped); entering mounts it with its initial state; while it stays the
\* effect runs when isActive or timeLeft changed.
PomodoroRender(w) ==
  IF w.view # "POMODORO"
  THEN [w EXCEPT !.interval = FALSE, !.timeLeft = FocusSeconds,
                 !.isActive = FALSE, !.mode = "FOCUS", !.lastAlert = "none"]
  ELSE IF view # "POMODORO" \/ w.isActive # isActive \/ w.timeLeft # timeLeft
  THEN PomodoroEffect(w)
  ELSE w

\* ------------------------------------------------------ React commit
\* After a handler: handleManualBack's onBack(), then the effects of the
\* render: cleanups first (AssistantView unmount 521-523, App voice effect
\* 400), then the App voice effect body (393-399) when a dependency changed.
DepsChanged(w) ==
  \/ w.isAssistantOpen # isAssistantOpen
  \/ w.assistantMode # assistantMode
  \/ w.view # view

MountAV(w) ==
  IF view # "AI_ASSISTANT" /\ w.view = "AI_ASSISTANT"
  THEN (IF w.avCount >= MaxMounts THEN [w EXCEPT !.ovf = TRUE]
        ELSE [w EXCEPT !.avCount = @ + 1])
  ELSE w

VoiceEffect(w) ==
  IF DepsChanged(w)
  THEN (IF w.isAssistantOpen /\ w.assistantMode = "VOICE" /\ w.view # "AI_ASSISTANT"
        THEN startVoiceSession(w)
        ELSE stopVoiceSession(w))
  ELSE w

AfterRender(w0) ==
  Bind(IF w0.navBack THEN setView(w0, "DASHBOARD") ELSE w0, LAMBDA w :
  Bind(IF view = "AI_ASSISTANT" /\ w.view # "AI_ASSISTANT"
       THEN stopLiveSession(w, avCount, FALSE) ELSE w, LAMBDA w1 :
  Bind(IF DepsChanged(w1) THEN stopVoiceSession(w1) ELSE w1, LAMBDA w2 :
  Bind(MountAV(w2), LAMBDA w3 :
  Bind(VoiceEffect(w3), LAMBDA w4 :
       PomodoroRender(w4))))))

Do(w0) == \E w \in {w0} : \E w1 \in {AfterRender(w)} : Commit(w1)

\* ------------------------------------------------------ tool calls

ToolView(name) ==
  CASE name = "generate_notes" -> "NOTES_GENERATOR"
    [] name = "start_quiz" -> "QUIZ"
    [] name = "show_history" -> "HISTORY"
    [] name = "set_pomodoro" -> "POMODORO"
    [] name = "go_home" -> "DASHBOARD"
    [] OTHER -> "none"

\* the switch of App.handleAssistantToolCall (src/types.ts 270-278)
ToolAction(w, name) ==
  IF ToolView(name) # "none" THEN setView(w, ToolView(name))
  ELSE IF name = "get_motivation" THEN [w EXCEPT !.motivationRequests = @ + 1]
  ELSE w

ToolResult(name) ==
  IF ToolView(name) # "none" \/ name = "get_motivation" THEN "ok" ELSE "Unknown tool."

\* App.handleAssistantToolCall (src/types.ts 268-286)
handleAssistantToolCall(w, fc) ==
  Bind(ToolAction(w, fc.name), LAMBDA w1 :
       IF w1.sessionPromiseRef[0] # 0
       THEN Then(w1, w1.sessionPromiseRef[0], ToolCb(fc, ToolResult(fc.name)))
       ELSE w1)

\* AssistantView.handleAssistantToolCall (geminiService.ts 317-332)
handleAssistantToolCallAV(w, i, fc) ==
  IF w.sessionPromiseRef[i] # 0
  THEN Then(w, w.sessionPromiseRef[i], ToolCb(fc, "ok"))
  ELSE w

\* ------------------------------------------------------ callbacks of connect

onopen(w, k) ==
  Bind(IF w.owner[k] = 0 THEN [w EXCEPT !.isVoiceActive = TRUE]
       ELSE SetStatus(w, w.owner[k], "ACTIVE"), LAMBDA w0 :
  Bind(Logged(w0, w0.owner[k], Event("start", NoText)), LAMBDA w1 :
       [w1 EXCEPT !.proc[k] = "connected", !.scriptProcessorRef[w1.owner[k]] = k]))

\* an error handler that reconnects: the stop, then a new start
onerrorReconnect(w, k) ==
  IF w.owner[k] = 0 THEN Bind(stopVoiceSession(w), LAMBDA w1 : startVoiceSession(w1))
  ELSE Bind(stopLiveSession(w, w.owner[k], FALSE), LAMBDA w1 :
            startLiveSession(w1, w1.owner[k]))
\* onerror: (e) => stopVoiceSession() / setError(...); stopLiveSession()
onerror(w, k) ==
  IF w.owner[k] = 0 THEN stopVoiceSession(w)
  ELSE Bind(IF Mounted(w, w.owner[k])
            THEN [w EXCEPT !.error[w.owner[k]] = "Connection issue detected."]
            ELSE w, LAMBDA w1 :
            stopLiveSession(w1, w1.owner[k], FALSE))

onclose(w, k) ==
  IF w.owner[k] = 0 THEN [w EXCEPT !.isVoiceActive = FALSE]
  ELSE StopLiveTail(w, w.owner[k])

\* ------------------------------------------------------ capture

\* A sample is -1, 0 or 1 (full scale negative, silence, full scale positive).
Samples == {-1, 0, 1}
\* inputData of one audio process event
FrameData == [1..FrameLen -> Samples]

\* A base64 text is a sequence of characters: 0..63 are the characters of
\* the alphabet by value, Pad is '=', Other is any character outside both.
Pad == 64
Other == 65

\* encode: btoa of the binary string of the bytes
RECURSIVE encode(_)
encode(bytes) ==
  IF bytes = <<>> THEN <<>>
  ELSE IF Len(bytes) = 1
  THEN <<bytes[1] \div 4, (bytes[1] % 4) * 16, Pad, Pad>>
  ELSE IF Len(bytes) = 2
  THEN <<bytes[1] \div 4, (bytes[1] % 4) * 16 + bytes[2] \div 16,
         (bytes[2] % 16) * 4, Pad>>
  ELSE <<bytes[1] \div 4, (bytes[1] % 4) * 16 + bytes[2] \div 16,
         (bytes[2] % 16) * 4 + bytes[3] \div 64, bytes[3] % 64>>
       \o encode(SubSeq(bytes, 4, Len(bytes)))

\* atob: the padding of a text whose length is a multiple of 4 is dropped
Unpadded(t) ==
  IF Len(t) % 4 = 0 /\ Len(t) >= 2 /\ t[Len(t)] = Pad
  THEN SubSeq(t, 1, Len(t) - (IF t[Len(t) - 1] = Pad THEN 2 ELSE 1))
  ELSE t
\* atob throws InvalidCharacterError
decodeThrows(t) ==
  \/ Len(Unpadded(t)) % 4 = 1
  \/ \E j \in DOMAIN Unpadded(t) : Unpadded(t)[j] >= Pad
\* the bytes of an unpadded text (the bits left over are discarded)
RECURSIVE FromSextets(_)
FromSextets(t) ==
  IF Len(t) < 2 THEN <<>>
  ELSE IF Len(t) = 2 THEN <<t[1] * 4 + t[2] \div 16>>
  ELSE IF Len(t) = 3
  THEN <<t[1] * 4 + t[2] \div 16, (t[2] % 16) * 16 + t[3] \div 4>>
  ELSE <<t[1] * 4 + t[2] \div 16, (t[2] % 16) * 16 + t[3] \div 4,
         (t[3] % 4) * 64 + t[4]>>
       \o FromSextets(SubSeq(t, 5, Len(t)))
\* decode: the bytes of atob(base64)
decode(t) == FromSextets(Unpadded(t))

\* `int16[i] = data[i] * 32768` stored in an Int16Array (wraps modulo 2^16)
ToInt16(x) == ((x * 32768 + 32768) % 65536) - 32768
\* new Uint8Array(int16.buffer): two bytes a sample, low byte first
RECURSIVE BytesOf(_)
BytesOf(ints) ==
  IF ints = <<>> THEN <<>>
  ELSE <<(Head(ints) % 65536) % 256, (Head(ints) % 65536) \div 256>>
       \o BytesOf(Tail(ints))
\* createBlob: the data of the blob
createBlob(data) == encode(BytesOf([n \in DOMAIN data |-> ToInt16(data[n])]))

\* new Int16Array(data.buffer, data.byteOffset, data.byteLength / 2): element j
Int16At(bytes, j) ==
  IF bytes[2 * j] >= 128
  THEN bytes[2 * j - 1] + 256 * bytes[2 * j] - 65536
  ELSE bytes[2 * j - 1] + 256 * bytes[2 * j]
\* decodeAudioData with one channel: the channel data of the buffer, in
\* units of 1/32768
decodeAudioData(bytes) == [j \in 1..(Len(bytes) \div 2) |-> Int16At(bytes, j)]
\* ctx.createBuffer throws NotSupportedError for a buffer of no frames
decodeAudioDataThrows(bytes) == Len(bytes) \div 2 = 0

RECURSIVE SumSquares(_)
SumSquares(data) ==
  IF data = <<>> THEN 0 ELSE Head(data) * Head(data) + SumSquares(Tail(data))
\* the integer part of the square root
ISqrt(n) == CHOOSE r \in 0..n : r * r <= n /\ (r + 1) * (r + 1) > n
\* Math.sqrt(sum / inputData.length), in hundredths
ActivityOf(data) == ISqrt((10000 * SumSquares(data)) \div Len(data))

\* the frame is dropped when it is silent
onaudioprocessGated(w, k, data) ==
  IF ActivityOf(data) = 0
  THEN [w EXCEPT !.captured[k] =
          Append(@, [data |-> data, level |-> 0,
                     early |-> w.promise[k] # "fulfilled"])]
  ELSE Then([w EXCEPT !.captured[k] =
                Append(@, [data |-> data, level |-> ActivityOf(data),
                           early |-> w.promise[k] # "fulfilled"])],
            k, FrameCb(createBlob(data)))
\* the frame is dropped when the session promise has not resolved yet
onaudioprocessIfResolved(w, k, data) ==
  IF w.promise[k] # "fulfilled"
  THEN [w EXCEPT !.captured[k] =
          Append(@, [data |-> data, level |-> ActivityOf(data), early |-> TRUE])]
  ELSE Then([w EXCEPT !.captured[k] =
                Append(@, [data |-> data, level |-> ActivityOf(data),
                           early |-> FALSE])],
            k, FrameCb(createBlob(data)))

\* a capture callback that cuts the playback when the frame is not silent
onaudioprocessBargeIn(w, k, data) ==
  Bind(IF ActivityOf(data) > 0
       THEN ResetClock(StopSources(w, w.owner[k]), w.owner[k]) ELSE w, LAMBDA w1 :
  Bind([w1 EXCEPT !.captured[k] =
          Append(@, [data |-> data, level |-> ActivityOf(data),
                     early |-> w.promise[k] # "fulfilled"])], LAMBDA w2 :
       Then(w2, k, FrameCb(createBlob(data)))))

\* scriptProcessor.onaudioprocess of invocation k with the samples data: the
\* assistant view publishes the activity level; both surfaces hand the
\* frame to the session through the session promise
onaudioprocess(w, k, data) ==
  Bind(ActivityOf(data), LAMBDA level :
  Bind(IF w.owner[k] # 0 /\ Mounted(w, w.owner[k])
       THEN [w EXCEPT !.micActivity[w.owner[k]] = level] ELSE w, LAMBDA w1 :
  Bind([w1 EXCEPT !.captured[k] =
          Append(@, [data |-> data, level |-> level,
                     early |-> w.promise[k] # "fulfilled"])], LAMBDA w2 :
       Then(w2, k, FrameCb(createBlob(data))))))

\* ------------------------------------------------------ onmessage

Max(a, b) == IF a >= b THEN a ELSE b

\* String.prototype.trim on a text
RECURSIVE TrimLeft(_)
TrimLeft(t) == IF t # <<>> /\ Head(t) = " " THEN TrimLeft(Tail(t)) ELSE t
RECURSIVE TrimRight(_)
TrimRight(t) ==
  IF t # <<>> /\ t[Len(t)] = " " THEN TrimRight(SubSeq(t, 1, Len(t) - 1)) ELSE t
Trim(t) == TrimRight(TrimLeft(t))

\* An optional part of a message: <<>> when absent, <<value>> when present.
Absent == <<>>
Some(x) == <<x>>
\* A LiveServerMessage: toolCall.functionCalls, the inline audio data of
\* serverContent.modelTurn (a base64 text; NoAudio: none, or the empty
\* text), and serverContent's inputTranscription.text,
\* outputTranscription.text, turnComplete, interrupted.
NoAudio == <<>>
\* the inline audio data of d samples of silence; a sample lasts a tick
Pcm(d) == encode([j \in 1..(2 * d) |-> 0])
Msg(tool, audio, inT, outT, tc, intr) ==
  [tool |-> tool, audio |-> audio, inT |-> inT, outT |-> outT,
   turnComplete |-> tc, interrupted |-> intr]

\* `for (const fc of message.toolCall.functionCalls) handleAssistantToolCall(fc)`
RECURSIVE HandleToolCalls(_, _, _)
HandleToolCalls(w, k, fcs) ==
  IF fcs = <<>> THEN w
  ELSE Bind(IF w.owner[k] = 0 THEN handleAssistantToolCall(w, Head(fcs))
            ELSE handleAssistantToolCallAV(w, w.owner[k], Head(fcs)), LAMBDA w1 :
            HandleToolCalls(w1, k, Tail(fcs)))

\* nextStartTime.current = Math.max(nextStartTime.current, outCtx.currentTime)
ScheduleAtClock(nst, clock) == clock
ScheduleStart(nst, clock) == Max(nst, clock)
ClampClock(w, i) ==
  [w EXCEPT !.nextStartTime[i] = ScheduleStart(@, w.now[i])]

\* after `await decodeAudioData(...)`: source.start(nextStartTime.current);
\* nextStartTime.current += buffer.duration; sources.current.add(source)
StartSource(w, i, dur) ==
  IF Len(w.src) >= MaxSources THEN [w EXCEPT !.ovf = TRUE]
  ELSE [w EXCEPT !.src = Append(@, [surf |-> i, start |-> w.nextStartTime[i],
                                    dur |-> dur, at |-> w.now[i],
                                    first |-> w.clockReset[i],
                                    state |-> "scheduled", cleared |-> FALSE]),
                 !.nextStartTime[i] = @ + dur,
                 !.sources[i] = @ \cup {Len(w.src) + 1},
                 !.clockReset[i] = FALSE]

\* the inputTranscription branch
InputTranscription(w, i, t) ==
  IF i = 0
  THEN [w EXCEPT !.voiceTranscription.user = t]
  ELSE Bind([w EXCEPT !.userTextBuffer[i] = @ \o t], LAMBDA w1 :
       IF Mounted(w1, i)
       THEN [w1 EXCEPT !.currentTurnUserText[i] = w1.userTextBuffer[i],
                       !.isThinking[i] = TRUE]
       ELSE w1)

\* the outputTranscription branch
OutputTranscription(w, i, t) ==
  IF i = 0
  THEN [w EXCEPT !.voiceTranscription.ai = @ \o t]
  ELSE Bind([w EXCEPT !.aiTextBuffer[i] = @ \o t], LAMBDA w1 :
       IF Mounted(w1, i)
       THEN [w1 EXCEPT !.currentTurnAiText[i] = w1.aiTextBuffer[i]]
       ELSE w1)

FlushAiFirst(uText, aText) ==
  (IF aText # NoText THEN <<[role |-> "ai", text |-> aText]>> ELSE <<>>)
  \o (IF uText # NoText THEN <<[role |-> "user", text |-> uText]>> ELSE <<>>)
\* the messages the turnComplete branch appends for the trimmed buffers
FlushMessages(uText, aText) ==
  (IF uText # NoText THEN <<[role |-> "user", text |-> uText]>> ELSE <<>>)
  \o (IF aText # NoText THEN <<[role |-> "ai", text |-> aText]>> ELSE <<>>)

\* the turnComplete branch without the reset of the assistant's buffer
TurnCompleteKeepAi(w, i) ==
  [w EXCEPT !.log[i] = <<Event("tc", NoText)>>,
            !.voiceTranscription.user = NoText, !.userTextBuffer[i] = NoText]
\* the turnComplete branch with setMessages([...]) in place of
\* setMessages(prev => [...prev, ...])
TurnCompleteReplace(w, i) ==
  IF i = 0
  THEN [w EXCEPT !.voiceTranscription = NoTranscription,
                 !.log[i] = <<Event("tc", NoText)>>]
  ELSE Bind(FlushMessages(Trim(w.userTextBuffer[i]), Trim(w.aiTextBuffer[i])),
       LAMBDA added :
       Bind([w EXCEPT !.lastTurn[i] =
                         [events |-> w.log[i],
                          user |-> w.userTextBuffer[i], ai |-> w.aiTextBuffer[i],
                          added |-> IF Mounted(w, i) THEN added ELSE <<>>],
                      !.log[i] = <<Event("tc", NoText)>>,
                      !.userTextBuffer[i] = NoText,
                      !.aiTextBuffer[i] = NoText], LAMBDA w1 :
       IF Mounted(w1, i)
       THEN [w1 EXCEPT !.messages[i] = IF added # <<>> THEN added ELSE @,
                       !.currentTurnUserText[i] = NoText,
                       !.currentTurnAiText[i] = NoText,
                       !.isThinking[i] = FALSE]
       ELSE w1))
\* the turnComplete branch
TurnComplete(w, i) ==
  IF i = 0
  THEN [w EXCEPT !.voiceTranscription = NoTranscription,
                 !.log[i] = <<Event("tc", NoText)>>]
  ELSE Bind(FlushMessages(Trim(w.userTextBuffer[i]), Trim(w.aiTextBuffer[i])),
       LAMBDA added :
       Bind([w EXCEPT !.lastTurn[i] =
                         [events |-> w.log[i],
                          user |-> w.userTextBuffer[i], ai |-> w.aiTextBuffer[i],
                          added |-> IF Mounted(w, i) THEN added ELSE <<>>],
                      !.log[i] = <<Event("tc", NoText)>>,
                      !.userTextBuffer[i] = NoText,
                      !.aiTextBuffer[i] = NoText], LAMBDA w1 :
       IF Mounted(w1, i)
       THEN [w1 EXCEPT !.messages[i] = @ \o added,
                       !.currentTurnUserText[i] = NoText,
                       !.currentTurnAiText[i] = NoText,
                       !.isThinking[i] = FALSE]
       ELSE w1))

\* the interrupted branch
Interrupted(w, i) ==
  Bind(StopSources(w, i), LAMBDA w1 :
  Bind(ResetClock(w1, i), LAMBDA w2 :
       IF Mounted(w2, i)
       THEN [w2 EXCEPT !.isSpeaking[i] = FALSE, !.isThinking[i] = FALSE]
       ELSE w2))

\* An interrupted signal of session k is handled: the suspended handlers of
\* the session's earlier messages have been interrupted.
Interrupts(w, k) ==
  [w EXCEPT !.pendingMsgs[w.owner[k]] =
              [j \in DOMAIN @ |-> IF @[j].k = k
                                  THEN [@[j] EXCEPT !.interrupted = TRUE]
                                  ELSE @[j]]]

\* onmessage after the audio branch: transcriptions, turnComplete, interrupted
AfterAudio(w, k, m) ==
  Bind(w.owner[k], LAMBDA i :
  Bind(IF m.inT # Absent
       THEN InputTranscription(Logged(w, i, Event("pu", m.inT[1])), i, m.inT[1])
       ELSE w, LAMBDA w1 :
  Bind(IF m.outT # Absent
       THEN OutputTranscription(Logged(w1, i, Event("pa", m.outT[1])), i, m.outT[1])
       ELSE w1, LAMBDA w2 :
  Bind(IF m.turnComplete THEN TurnComplete(w2, i) ELSE w2, LAMBDA w3 :
       IF m.interrupted
       THEN Interrupted(Interrupts(Logged(w3, i, Event("int", NoText)), k), i)
       ELSE w3))))

\* onmessage after `await decodeAudioData(...)`
AfterDecode(w, k, m) ==
  IF decodeThrows(m.audio) \/ decodeAudioDataThrows(decode(m.audio))
  THEN w  \* the exception ends the handler: its promise rejects
  ELSE Bind(StartSource(Logged(w, w.owner[k], Event("audio", NoText)),
                        w.owner[k], Len(decodeAudioData(decode(m.audio)))),
            LAMBDA w1 : AfterAudio(w1, k, m))

\* onmessage from the clamping of the playback clock on (the output context
\* runs); the decoding takes no task of its own
ResumeHandler(w, k, m) ==
  Bind(ClampClock(w, w.owner[k]), LAMBDA w1 : AfterDecode(w1, k, m))

\* inline audio that is present and is no base64 text or does not hold a
\* whole, positive number of 16-bit samples
Malformed(a) ==
  /\ a # NoAudio
  /\ \/ decodeThrows(a)
     \/ Len(decode(a)) = 0
     \/ Len(decode(a)) % 2 # 0

\* The handler of message m of session k begins: the suspended handlers of
\* the session's earlier messages are overtaken.
Begins(w, k, m) ==
  [w EXCEPT !.pendingMsgs[w.owner[k]] =
              [j \in DOMAIN @ |-> IF @[j].k = k
                                  THEN [@[j] EXCEPT !.overtaken = TRUE]
                                  ELSE @[j]],
            !.lastBad[w.owner[k]] =
              IF Malformed(m.audio) THEN <<[m |-> m, nsrc |-> Len(w.src)]>>
              ELSE <<>>]

\* onmessage of session k.  With inline audio and the output context
\* suspended the handler waits at `await outCtx.resume()`.
onmessage(w, k, m) ==
  Bind(HandleToolCalls(Begins(w, k, m), k, m.tool), LAMBDA w1 :
       IF m.audio = NoAudio THEN AfterAudio(w1, k, m)
       ELSE Bind(IF Mounted(w1, w1.owner[k])
                 THEN [w1 EXCEPT !.isSpeaking[w1.owner[k]] = TRUE,
                                 !.isThinking[w1.owner[k]] = FALSE]
                 ELSE w1, LAMBDA w2 :
            IF w2.outSuspended[w2.owner[k]]
            THEN IF Len(w2.src) + Len(w2.pendingMsgs[w2.owner[k]]) >= MaxSources
                 THEN [w2 EXCEPT !.ovf = TRUE]
                 ELSE [w2 EXCEPT !.pendingMsgs[w2.owner[k]] =
                                    Append(@, [k |-> k, m |-> m,
                                               nst |-> w2.nextStartTime[w2.owner[k]],
                                               sources |-> w2.sources[w2.owner[k]],
                                               overtaken |-> FALSE,
                                               interrupted |-> FALSE])]
            ELSE ResumeHandler(w2, k, m)))

\* The handlers waiting for the output context of surface instance i are
\* resumed together: each clamps the playback clock and awaits the decoding,
\* then each continues, in order.
RECURSIVE DecodedAll(_, _)
DecodedAll(w, q) ==
  IF q = <<>> THEN w
  ELSE Bind(AfterDecode(w, Head(q).k, Head(q).m), LAMBDA w1 :
            DecodedAll(w1, Tail(q)))
ResumeAll(w, i, q) ==
  IF q = <<>> THEN w ELSE DecodedAll(ClampClock(w, i), q)

\* source.onended without the removal from the active-sources set
onendedKeep(w, n) == [w EXCEPT !.src[n].state = "ended"]
\* source.onended
onended(w, n) ==
  Bind(w.src[n].surf, LAMBDA i :
  Bind([w EXCEPT !.src[n].state = "ended", !.sources[i] = @ \ {n}], LAMBDA w1 :
       IF i # 0 /\ w1.sources[i] = {} /\ Mounted(w1, i)
       THEN [w1 EXCEPT !.isSpeaking[i] = FALSE]
       ELSE w1))

\* the start function resumed with the microphone stream: streamRef.current =
\* stream; sessionPromise = ai.live.connect(...); sessionPromiseRef.current =
\* sessionPromise
gumResolved(w, k) ==
  Bind(IF w.owner[k] # 0 THEN SetStatus(w, w.owner[k], "CONNECTING...") ELSE w,
       LAMBDA w1 :
       [w1 EXCEPT !.pc[k] = "done", !.stream[k] = "live",
                  !.streamRef[w1.owner[k]] = k,
                  !.conn[k] = "connecting", !.promise[k] = "pending",
                  !.sessionPromiseRef[w1.owner[k]] = k])

\* the start function's catch block
gumRejected(w, k) ==
  Bind(IF w.owner[k] = 0 THEN [w EXCEPT !.isVoiceActive = FALSE]
       ELSE SetAv(w, w.owner[k], FALSE, "MIRRORING INACTIVE",
                  "Could not access microphone."), LAMBDA w1 :
       StartFailed(w1, k))

\* ------------------------------------------------------ text to speech

\* generateContent rejects
EndpointFails == [kind |-> "fails", data |-> NoAudio]
\* generateContent resolves to a response whose first part holds data as
\* inline data (NoAudio: no candidate, no part or no inline data)
Response(data) == [kind |-> "response", data |-> data]

\* generateSpeech rethrowing the endpoint's error
generateSpeechRaises(reply) ==
  [threw |-> reply.kind = "fails", value |-> reply.data]
\* generateSpeech for the endpoint's reply: the value its promise resolves
\* to (NoAudio: undefined or ''), or threw when it rejects
generateSpeech(reply) ==
  IF reply.kind = "fails"
  THEN [threw |-> FALSE, value |-> NoAudio]  \* catch: return undefined
  ELSE [threw |-> FALSE, value |-> reply.data]

\* the character cap of a text-to-speech request
SpeechCap == 500
\* the code unit of '.'
Dot == 46
\* a text is the sequence of its UTF-16 code units
Ellipsis == <<Dot, Dot, Dot>>
\* safeText with the cut at the cap itself
safeTextFromCap(text) ==
  IF Len(text) >= SpeechCap THEN SubSeq(text, 1, SpeechCap) \o Ellipsis ELSE text
\* text.length > 500 ? text.substring(0, 500) + "..." : text
safeText(text) ==
  IF Len(text) > SpeechCap THEN SubSeq(text, 1, SpeechCap) \o Ellipsis ELSE text

NewSpeak(at, text) ==
  [pc |-> at, text |-> text, request |-> Absent, reply |-> Absent,
   speech |-> Absent, returned |-> Absent, sources |-> 0]

\* call e of handleSpeakText calls generateSpeech(text), which sends
\* safeText to the endpoint
CallGenerateSpeech(e) ==
  [e EXCEPT !.pc = "speech", !.request = Some(safeText(e.text))]

\* handleSpeakText(text) up to its first await; a context it creates is in
\* state st
handleSpeakText(w, st, text) ==
  Bind(IF w.ttsCtx = "none" THEN [w EXCEPT !.ttsCtx = st] ELSE w, LAMBDA w1 :
       [w1 EXCEPT !.speak =
          Append(@, IF w1.ttsCtx = "suspended" THEN NewSpeak("resume", text)
                    ELSE CallGenerateSpeech(NewSpeak("resume", text)))])

\* the calls of handleSpeakText waiting at `await ttsCtx.resume()` go on to
\* `await generateSpeech(text)`
SpeakResumed(w) ==
  [w EXCEPT !.speak = [n \in DOMAIN @ |->
                         IF @[n].pc = "resume" THEN CallGenerateSpeech(@[n])
                         ELSE @[n]]]

\* call n of handleSpeakText from `await generateSpeech(text)` on, r being
\* the outcome of generateSpeech
SpeakBody(w, n, r) ==
  IF r.threw THEN [w EXCEPT !.thrown = TRUE]
  ELSE IF r.value = NoAudio THEN w
  ELSE IF decodeThrows(r.value) \/ decodeAudioDataThrows(decode(r.value))
  THEN [w EXCEPT !.thrown = TRUE]
  ELSE [w EXCEPT !.speak[n].sources = @ + 1,
                 !.speak[n].returned = Some(Len(decodeAudioData(decode(r.value))))]
\* the try block, its catch and the final `return 0`
AfterSpeech(w, n, r) ==
  Bind(SpeakBody(w, n, r), LAMBDA w1 :
       IF w1.speak[n].returned # Absent THEN w1
       ELSE [w1 EXCEPT !.thrown = FALSE, !.speak[n].returned = Some(0)])

\* the endpoint's reply to call n of handleSpeakText
SpeechReplied(w, n, reply) ==
  Bind(generateSpeech(reply), LAMBDA r :
       AfterSpeech([w EXCEPT !.speak[n].pc = "done",
                             !.speak[n].reply = Some(reply),
                             !.speak[n].speech = Some(r)], n, r))

\* ------------------------------------------------------------- actions

Init ==
  /\ startsLeft = MaxStarts
  /\ mediaSupported \in BOOLEAN
  /\ view = "DASHBOARD"
  /\ isAssistantOpen = FALSE
  /\ assistantMode = "CHAT"
  /\ isVoiceActive = FALSE
  /\ motivationRequests = 0
  /\ avCount = 0
  /\ isLive = [i \in AvInst |-> FALSE]
  /\ statusText = [i \in AvInst |-> "MIRRORING INACTIVE"]
  /\ error = [i \in AvInst |-> "null"]
  /\ sessionPromiseRef = [i \in Inst |-> 0]
  /\ streamRef = [i \in Inst |-> 0]
  /\ scriptProcessorRef = [i \in Inst |-> 0]
  /\ nCalls = 0
  /\ owner = [k \in Calls |-> 0]
  /\ pc = [k \in Calls |-> "idle"]
  /\ stream = [k \in Calls |-> "none"]
  /\ conn = [k \in Calls |-> "none"]
  /\ promise = [k \in Calls |-> "none"]
  /\ thenQ = [k \in Calls |-> <<>>]
  /\ proc = [k \in Calls |-> "none"]
  /\ toolCalls = <<>>
  /\ toolResponses = <<>>
  /\ prior = [k \in Calls |-> 0]
  /\ cancelled = [k \in Calls |-> FALSE]
  /\ now = [i \in Inst |-> 0]
  /\ outSuspended = [i \in Inst |-> FALSE]
  /\ nextStartTime = [i \in Inst |-> 0]
  /\ sources = [i \in Inst |-> {}]
  /\ src = <<>>
  /\ clockReset = [i \in Inst |-> TRUE]
  /\ pendingMsgs = [i \in Inst |-> <<>>]
  /\ isSpeaking = [i \in AvInst |-> FALSE]
  /\ isThinking = [i \in AvInst |-> FALSE]
  /\ userTextBuffer = [i \in AvInst |-> NoText]
  /\ aiTextBuffer = [i \in AvInst |-> NoText]
  /\ currentTurnUserText = [i \in AvInst |-> NoText]
  /\ currentTurnAiText = [i \in AvInst |-> NoText]
  /\ messages = [i \in AvInst |-> <<Greeting>>]
  /\ voiceTranscription = NoTranscription
  /\ msgsLeft = MaxMsgs
  /\ interruptsLeft = MaxInterrupts
  /\ log = [i \in Inst |-> <<>>]
  /\ lastTurn = [i \in AvInst |-> NoTurn]
  /\ teardown = [i \in Inst |-> NoTeardown]
  /\ failing = {}
  /\ captured = [k \in Calls |-> <<>>]
  /\ sent = [k \in Calls |-> <<>>]
  /\ micActivity = [i \in AvInst |-> 0]
  /\ framesLeft = MaxFrames
  /\ lastBad = [i \in Inst |-> <<>>]
  /\ ttsCtx = "none"
  /\ speak = <<>>
  /\ timeLeft = FocusSeconds
  /\ isActive = FALSE
  /\ mode = "FOCUS"
  /\ interval = FALSE
  /\ lastAlert = "none"

\* The logo and every view's back button go to the dashboard; the dashboard's
\* buttons go to every other view.
ClickSetView ==
  \E v \in UserViews \ {"AI_ASSISTANT"} :
    /\ v = "DASHBOARD" \/ view = "DASHBOARD"
    /\ v # view
    /\ view # "AI_ASSISTANT"
    /\ \E w \in {World} : Do(setView(w, v))

\* The dashboard's button to the focus timer and the timer's back button.
OpenPomodoro ==
  /\ view = "DASHBOARD"
  /\ \E w \in {World} : Do(setView(w, "POMODORO"))
PomodoroBack ==
  /\ view = "POMODORO"
  /\ \E w \in {World} : Do(setView(w, "DASHBOARD"))

\* The timer's mode buttons.
ClickMode ==
  /\ view = "POMODORO"
  /\ \E m \in {"FOCUS", "BREAK"} : \E w \in {World} : Do(selectMode(w, m))

\* The timer's start/pause and reset buttons.
ClickToggleTimer ==
  /\ view = "POMODORO"
  /\ \E w \in {World} : Do(toggleTimer(w))
ClickResetTimer ==
  /\ view = "POMODORO"
  /\ \E w \in {World} : Do(resetTimer(w))

\* The interval the timer's effect has set fires: setTimeLeft(t => t - 1).
PomodoroTick ==
  /\ interval
  /\ \E w \in {[World EXCEPT !.timeLeft = @ - 1]} : Do(w)

\* The dashboard's buttons to the full-screen assistant view.
OpenAssistantView ==
  /\ view = "DASHBOARD"
  /\ \E w \in {World} : Do(setView(w, "AI_ASSISTANT"))

\* The logo while in the assistant view (its back button is HandleManualBack).
ClickLogoInAssistant ==
  /\ view = "AI_ASSISTANT"
  /\ \E w \in {World} : Do(setView(w, "DASHBOARD"))

ToggleAssistant ==
  \E w \in {[World EXCEPT !.isAssistantOpen = ~@]} : Do(w)

CloseAssistant ==
  /\ isAssistantOpen
  /\ \E w \in {[World EXCEPT !.isAssistantOpen = FALSE]} : Do(stopVoiceSession(w))

SetAssistantMode ==
  \E m \in {"CHAT", "VOICE"} :
    /\ isAssistantOpen
    /\ m # assistantMode
    /\ \E w \in {[World EXCEPT !.assistantMode = m]} : Do(w)

ToggleLiveMode ==
    /\ view = "AI_ASSISTANT"
    /\ \E w \in {World} : Do(toggleLiveMode(w, avCount))

HandleManualBack ==
  /\ view = "AI_ASSISTANT"
  /\ \E w \in {World} : Do(stopLiveSession(w, avCount, TRUE))

\* getUserMedia resolves (the start function has first awaited the resume
\* of a suspended output context)
GumResolve ==
  \E k \in Calls :
    /\ pc[k] = "gum"
    /\ mediaSupported
    /\ ~outSuspended[owner[k]]
    /\ \E w \in {World} : Do(gumResolved(w, k))

GumReject ==
  \E k \in Calls :
    /\ pc[k] = "gum"
    /\ \E w \in {World} : Do(gumRejected(w, k))

\* The socket opens: onopen, then the session promise resolves and the
\* callbacks waiting on it run in order.
ConnOpen ==
  \E k \in Calls :
    /\ conn[k] = "connecting"
    /\ \E w \in {[World EXCEPT !.conn[k] = "open"]} :
       \E w1 \in {onopen(w, k)} :
       \E w2 \in {[w1 EXCEPT !.promise[k] = "fulfilled", !.thenQ[k] = <<>>]} :
         Do(RunAll(w2, k, thenQ[k]))

\* The socket opens and onopen runs; the session promise resolves in a
\* later task (SessionResolve).
SocketOpen ==
  \E k \in Calls :
    /\ conn[k] = "connecting"
    /\ \E w \in {[World EXCEPT !.conn[k] = "open"]} : Do(onopen(w, k))

\* The session promise of an opened socket resolves: the callbacks waiting
\* on it run in order.
SessionResolve ==
  \E k \in Calls :
    /\ conn[k] \notin {"none", "connecting"}
    /\ promise[k] = "pending"
    /\ \E w \in {[World EXCEPT !.promise[k] = "fulfilled", !.thenQ[k] = <<>>]} :
         Do(RunAll(w, k, thenQ[k]))

\* The capture node of invocation k delivers a frame.
AudioProcess ==
  \E k \in Calls, data \in FrameData :
    /\ proc[k] = "connected"
    /\ framesLeft > 0
    /\ \E w \in {[World EXCEPT !.framesLeft = @ - 1]} :
         Do(onaudioprocess(w, k, data))

\* A transport error: the socket is closing when onerror runs; its close
\* event follows.
ConnError ==
  \E k \in Calls :
    /\ conn[k] \in {"connecting", "open"}
    /\ \E w \in {[World EXCEPT !.conn[k] = "failed"]} : Do(onerror(w, k))

\* The close event of the socket (closed by the remote end, by
\* session.close() or after an error).
ConnClose ==
  \E k \in Calls :
    /\ conn[k] \in {"open", "closing", "failed"}
    /\ \E w \in {[World EXCEPT !.conn[k] = "closed"]} : Do(onclose(w, k))

\* An inbound message m on session k.
Deliver(w, k, m) == Active(k) /\ Do(onmessage(w, k, m))

\* An inbound message with a toolCall of one function call.
ToolCall ==
  \E k \in Calls, name \in ToolNames :
    /\ Len(toolCalls) < MaxTools
    /\ \E fc \in {[id |-> Len(toolCalls) + 1, name |-> name]} :
       \E w \in {[World EXCEPT !.toolCalls =
                     Append(@, [id |-> fc.id, name |-> name, sess |-> k])]} :
         Deliver(w, k, Msg(<<fc>>, NoAudio, Absent, Absent, FALSE, FALSE))

\* An inbound message with inline audio of duration d.
AudioMessage ==
  \E k \in Calls, d \in 1..MaxDur :
    \E w \in {World} : Deliver(w, k, Msg(<<>>, Pcm(d), Absent, Absent, FALSE, FALSE))

\* An inbound message with serverContent.interrupted.
InterruptedMessage ==
  \E k \in Calls :
    /\ interruptsLeft > 0
    /\ \E w \in {[World EXCEPT !.interruptsLeft = @ - 1]} :
         Deliver(w, k, Msg(<<>>, NoAudio, Absent, Absent, FALSE, TRUE))

\* An inbound message with inline audio of duration d and
\* serverContent.interrupted.
AudioInterruptedMessage ==
  \E k \in Calls, d \in 1..MaxDur :
    /\ interruptsLeft > 0
    /\ \E w \in {[World EXCEPT !.interruptsLeft = @ - 1]} :
         Deliver(w, k, Msg(<<>>, Pcm(d), Absent, Absent, FALSE, TRUE))

UserFrags == {<<"a">>, <<"b">>, <<" ">>}
AiFrags == {<<"x">>}
TranscriptMsgs ==
  {Msg(<<>>, NoAudio, Some(t), Absent, FALSE, FALSE) : t \in UserFrags}
  \cup {Msg(<<>>, NoAudio, Absent, Some(t), FALSE, FALSE) : t \in AiFrags}
  \cup {Msg(<<>>, NoAudio, Absent, Absent, TRUE, FALSE)}

\* inline audio with a character outside the alphabet, of one byte, and of
\* three bytes
BadAudio == {<<0, 0, Other, 0>>, encode(<<0>>), encode(<<0, 0, 0>>)}
BadAudioMsgs ==
  UNION {{Msg(<<>>, a, Some(<<"a">>), Absent, FALSE, FALSE),
          Msg(<<>>, a, Absent, Some(<<"x">>), FALSE, FALSE),
          Msg(<<>>, a, Absent, Absent, TRUE, FALSE),
          Msg(<<>>, a, Absent, Absent, FALSE, TRUE)} : a \in BadAudio}

\* An inbound message with malformed inline audio and one other part.
MalformedAudioMessage ==
  \E k \in Calls, m \in BadAudioMsgs :
    /\ msgsLeft > 0
    /\ \E w \in {[World EXCEPT !.msgsLeft = @ - 1]} : Deliver(w, k, m)

\* An inbound message with transcription fragments and/or turnComplete.
TranscriptMessage ==
  \E k \in Calls, m \in TranscriptMsgs :
    /\ msgsLeft > 0
    /\ \E w \in {[World EXCEPT !.msgsLeft = @ - 1]} : Deliver(w, k, m)

\* The output clock of surface instance i advances (its context exists and runs).
Tick ==
  \E i \in Inst :
    /\ \E k \in Calls : k <= nCalls /\ owner[k] = i
    /\ ~outSuspended[i]
    /\ now[i] < MaxClock
    /\ \E w \in {[World EXCEPT !.now[i] = @ + 1]} : Do(w)

\* The ended event of a source: its buffer has played to the end, or it was
\* stopped.
SourceEnded ==
  \E n \in DOMAIN src :
    /\ \/ src[n].state = "scheduled" /\ now[src[n].surf] >= src[n].start + src[n].dur
       \/ src[n].state = "stopped"
    /\ \E w \in {World} : Do(onended(w, n))

\* The browser suspends the output context of a surface during a session.
CtxSuspend ==
  \E i \in Inst :
    /\ ActiveSession(i) # 0
    /\ ~outSuspended[i]
    /\ \E w \in {[World EXCEPT !.outSuspended[i] = TRUE]} : Do(w)

\* A requested resume() completes: the context runs and the handlers and
\* start functions waiting for it continue.
ResumeDone ==
  \E i \in Inst :
    /\ outSuspended[i]
    /\ \/ pendingMsgs[i] # <<>>
       \/ \E k \in Calls : owner[k] = i /\ pc[k] = "gum"
    /\ \E w \in {[World EXCEPT !.outSuspended[i] = FALSE, !.pendingMsgs[i] = <<>>]} :
         Do(ResumeAll(w, i, pendingMsgs[i]))

\* the text of n code units: digits, so that every place is told from its
\* neighbours
TextOf(n) == [j \in 1..n |-> 48 + (j % 10)]
\* the texts a component asks to be spoken: empty, short, around the cap,
\* and a text of dots at the cap
SpokenTexts ==
  {TextOf(n) : n \in {0, 1} \cup ((SpeechCap - MaxExcess)..(SpeechCap + MaxExcess))}
  \cup {[j \in 1..SpeechCap |-> Dot]}

\* A component asks for a text to be spoken.
SpeakText ==
  \E st \in {"suspended", "running"}, text \in SpokenTexts :
    /\ Len(speak) < MaxSpeaks
    /\ \E w \in {World} : Do(handleSpeakText(w, st, text))

\* The resume of the text-to-speech context completes.
TtsResumed ==
  /\ ttsCtx = "suspended"
  /\ \E n \in DOMAIN speak : speak[n].pc = "resume"
  /\ \E w \in {[World EXCEPT !.ttsCtx = "running"]} : Do(SpeakResumed(w))

TtsReplies ==
  {EndpointFails, Response(NoAudio)}
  \cup {Response(Pcm(d)) : d \in 1..MaxDur}
  \cup {Response(a) : a \in BadAudio}

\* The text-to-speech endpoint replies to a call of generateSpeech.
TtsReply ==
  \E n \in DOMAIN speak, reply \in TtsReplies :
    /\ speak[n].pc = "speech"
    /\ \E w \in {World} : Do(SpeechReplied(w, n, reply))

\* From now on stop() throws on a source that has played to its end.
SourceStopFails ==
  /\ "s" \notin failing
  /\ \E w \in {[World EXCEPT !.failing = @ \cup {"s"}]} : Do(w)

\* From now on a teardown call on the assistant view's objects throws.
StepFails ==
  \E s \in {"a", "b", "c"} :
    /\ Cardinality(failing) < MaxFaults
    /\ s \notin failing
    /\ \E w \in {[World EXCEPT !.failing = @ \cup {s}]} : Do(w)

EnvNext ==
  \/ GumResolve
  \/ GumReject
  \/ ConnOpen
  \/ ConnError
  \/ ConnClose

MiniNext ==
  \/ ClickSetView
  \/ ToggleAssistant
  \/ CloseAssistant
  \/ SetAssistantMode

AvNext ==
  \/ OpenAssistantView
  \/ ClickLogoInAssistant
  \/ ToggleLiveMode
  \/ HandleManualBack

\* both surfaces
Next == MiniNext \/ AvNext \/ EnvNext
Spec == Init /\ [][Next]_vars

\* the mini-companion alone (the assistant view is never opened)
SpecMini == Init /\ [][MiniNext \/ EnvNext]_vars

\* the assistant view alone (the mini-companion is never opened)
SpecAV == Init /\ [][AvNext \/ EnvNext]_vars

\* the assistant view with failing teardown calls
SpecFault == Init /\ [][AvNext \/ EnvNext \/ StepFails]_vars

\* both surfaces with tool calls (the mini-companion in full, the assistant
\* view opened and toggled)
ToolNext ==
  \/ MiniNext
  \/ OpenAssistantView
  \/ ToggleLiveMode
  \/ GumResolve
  \/ ConnOpen
  \/ ConnClose
  \/ ToolCall
SpecTool == Init /\ [][ToolNext]_vars

\* one session, on either surface: the user acts until a start is requested
\* and then leaves the session running
FirstSessionNext ==
  \/ nCalls = 0 /\ ToggleAssistant
  \/ nCalls = 0 /\ SetAssistantMode
  \/ nCalls = 0 /\ OpenAssistantView
  \/ nCalls = 0 /\ ToggleLiveMode
  \/ GumResolve
  \/ ConnOpen

\* sessions of the assistant view started and stopped by the user
AvSessionNext ==
  \/ OpenAssistantView
  \/ ToggleLiveMode
  \/ GumResolve
  \/ ConnOpen

\* playback: inline audio, interruptions, the output clock and context
PlayNext ==
  \/ AudioMessage
  \/ InterruptedMessage
  \/ Tick
  \/ SourceEnded
  \/ CtxSuspend
  \/ ResumeDone
SpecPlay == Init /\ [][FirstSessionNext \/ PlayNext]_vars

\* playback with a running output context and stop() calls that throw
PlayFaultNext ==
  \/ AudioMessage
  \/ InterruptedMessage
  \/ Tick
  \/ SourceEnded
  \/ SourceStopFails
SpecPlayFault == Init /\ [][FirstSessionNext \/ PlayFaultNext]_vars

\* playback with messages that carry both inline audio and the interrupted
\* signal
SpecPlayBoth == Init /\ [][FirstSessionNext \/ PlayNext \/ AudioInterruptedMessage]_vars

\* playback in one session on either surface, stopped by the user at any
\* time; the output context keeps running
StopNext ==
  \/ nCalls = 1 /\ isLive[1] /\ ToggleLiveMode
  \/ CloseAssistant
PlayStopNext ==
  \/ AudioMessage
  \/ InterruptedMessage
  \/ Tick
  \/ SourceEnded
  \/ StopNext
SpecPlayStop == Init /\ [][FirstSessionNext \/ PlayStopNext]_vars

\* capture: one session on either surface, stopped by the user at any
\* time; the session promise may resolve later than onopen runs
FramesNext ==
  \/ SocketOpen
  \/ SessionResolve
  \/ AudioProcess
  \/ nCalls = 1 /\ isLive[1] /\ ToggleLiveMode
  \/ CloseAssistant
SpecFrames == Init /\ [][FirstSessionNext \/ FramesNext]_vars

\* capture and playback in one session that the user stops: one captured
\* frame, one transcript message, two chunks of inline audio and interruptions
CapturePlayNext ==
  \/ framesLeft = MaxFrames /\ AudioProcess
  \/ Len(src) < 2 /\ AudioMessage
  \/ InterruptedMessage
  \/ msgsLeft = MaxMsgs /\ TranscriptMessage
  \/ SourceEnded
  \/ StopNext
SpecCapturePlay == Init /\ [][FirstSessionNext \/ CapturePlayNext]_vars

\* transcripts of one session, on either surface
SpecTrans == Init /\ [][FirstSessionNext \/ TranscriptMessage]_vars

\* text to speech, from any view
SpecSpeak == Init /\ [][ClickSetView \/ SpeakText \/ TtsResumed \/ TtsReply]_vars

\* transcripts and malformed inline audio in one session, on either surface
SpecMalformed ==
  Init /\ [][FirstSessionNext \/ TranscriptMessage \/ MalformedAudioMessage]_vars

\* the focus timer, entered from the dashboard and left by its back button
PomodoroNext ==
  \/ OpenPomodoro
  \/ PomodoroBack
  \/ ClickMode
  \/ ClickToggleTimer
  \/ ClickResetTimer
  \/ PomodoroTick
SpecPomodoro == Init /\ [][PomodoroNext]_vars

\* transcripts of the assistant view across sessions
SpecTransAV == Init /\ [][AvSessionNext \/ TranscriptMessage]_vars

----------------------------------------------------------------------------
\* Session lifecycle properties

\* the invocations made by surface instance i
CallsOf(i) == {k \in Calls : k <= nCalls /\ owner[k] = i}
LiveStreams(i) == {k \in CallsOf(i) : stream[k] = "live"}
LiveConns(i) == {k \in CallsOf(i) : conn[k] \in {"connecting", "open"}}
Capturing(i) ==
  \E k \in CallsOf(i) : stream[k] = "live" /\ proc[k] = "connected"
\* invocation k holds nothing any more
Released(k) ==
  /\ stream[k] # "live"
  /\ proc[k] # "connected"
  /\ conn[k] \notin {"connecting", "open"}
\* invocation k has no pending operation left
Settled(k) ==
  /\ k <= nCalls
  /\ pc[k] \in {"done", "failed"}
  /\ conn[k] # "connecting"
  /\ thenQ[k] = <<>>

\* C1: on each voice surface, in every reachable state, at most one
\* microphone stream is live and at most one outbound connection is live
\* (connecting or open).
C1_AtMostOneLive ==
  \A i \in Inst :
    /\ Cardinality(LiveStreams(i)) <= 1
    /\ Cardinality(LiveConns(i)) <= 1

\* C2: when a start is requested while a session of the surface is Active,
\* that prior session is fully stopped first (it holds no stream, no
\* connected capture node and no live connection from then on), and once
\* the new call has settled with its connection open the surface holds
\* exactly one microphone stream and exactly one open connection.
C2_PriorStoppedFirst ==
  \A k \in Calls :
    (k <= nCalls /\ prior[k] # 0) =>
      /\ Released(prior[k])
      /\ (Settled(k) /\ conn[k] = "open") =>
            /\ Cardinality(LiveStreams(owner[k])) = 1
            /\ Cardinality({j \in CallsOf(owner[k]) : conn[j] = "open"}) = 1

\* C3: a stop issued while a start was pending (at getUserMedia or at the
\* connection's open) is effective: once the pending operations of that
\* start have resolved it holds no microphone stream, no connected capture
\* node and no open connection.
C3_StopWhilePendingEffective ==
  \A k \in Calls :
    (cancelled[k] /\ Settled(k)) => Released(k)

\* C4: at most one of the two voice surfaces (mini-companion, full-screen
\* assistant view) holds a microphone stream with a connected capture node.
C4_OneSurfaceCapturing ==
  ~(Capturing(0) /\ \E i \in AvInst : Capturing(i))

\* C5: every tool invocation received on an Active session has exactly one
\* tool response, sent on the session that delivered it.
C5_OneResponsePerInvocation ==
  \A n \in DOMAIN toolCalls :
    Cardinality({j \in DOMAIN toolResponses :
                   /\ toolResponses[j].id = toolCalls[n].id
                   /\ toolResponses[j].sess = toolCalls[n].sess}) = 1

----------------------------------------------------------------------------
\* Playback properties

\* the chunks scheduled on surface instance i, and the one before chunk n
Chunks(i) == {n \in DOMAIN src : src[n].surf = i}
PrevChunk(n) ==
  IF \E p \in Chunks(src[n].surf) : p < n
  THEN CHOOSE p \in Chunks(src[n].surf) :
         p < n /\ \A q \in Chunks(src[n].surf) : q < n => q <= p
  ELSE 0
EndOf(n) == src[n].start + src[n].dur
LastLogged(i, type) == log[i] # <<>> /\ log[i][Len(log[i])].type = type

C7_InterruptClearsPlayback ==
  \A i \in Inst :
    LastLogged(i, "int") =>
      /\ sources[i] = {}
      /\ nextStartTime[i] = 0
      /\ \A n \in Chunks(i) : src[n].state # "scheduled"

\* C7 witness: two sources of 2 and 3 ticks (1.0 s and 1.5 s) starting at
\* t = 0 and t = 2 (1.0 s) were in flight when the interruption was
\* handled; both are stopped.
C7_TwoSourcesInterrupted ==
  \E i \in Inst, a, b \in DOMAIN src :
    /\ LastLogged(i, "int")
    /\ src[a].surf = i /\ src[b].surf = i
    /\ src[a].start = 0 /\ src[a].dur = 2 /\ src[a].state = "stopped"
    /\ src[b].start = 2 /\ src[b].dur = 3 /\ src[b].state = "stopped"
    /\ sources[i] = {} /\ nextStartTime[i] = 0

----------------------------------------------------------------------------
\* Transcript properties

\* the concatenation of the fragments of one type in a sequence of events
RECURSIVE Heard(_, _)
Heard(events, type) ==
  IF events = <<>> THEN NoText
  ELSE (IF Head(events).type = type THEN Head(events).text ELSE NoText)
       \o Heard(Tail(events), type)
\* the events after the last session start
RECURSIVE SinceStart(_)
SinceStart(events) ==
  IF \E n \in DOMAIN events : events[n].type = "start"
  THEN SinceStart(Tail(events)) ELSE events
Expected(role, text) ==
  IF text # NoText THEN <<[role |-> role, text |-> text]>> ELSE <<>>

\* C8: a turn completion flushes, for each role, the (trimmed)
\* concatenation of the fragments of that role received since the previous
\* flush or since the session started, and nothing of an earlier session.
C8_FlushIsThisTurn ==
  \A i \in AvInst :
    lastTurn[i].events # <<>> =>
      lastTurn[i].added =
        Expected("user", Trim(Heard(SinceStart(lastTurn[i].events), "pu")))
        \o Expected("ai", Trim(Heard(SinceStart(lastTurn[i].events), "pa")))

\* C9: a turn completion appends, at the end of the message log, only
\* non-empty fields, the user message before the assistant message; the
\* events [partial-user a, partial-user b, partial-ai x] give exactly
\* {user, ab} then {ai, x}; with both buffers empty nothing is appended.
C9_FlushUserThenAi ==
  \A i \in AvInst :
    LET t == lastTurn[i] IN
    /\ Len(t.added) <= 2
    /\ \A j \in DOMAIN t.added :
          /\ t.added[j].text # NoText
          /\ t.added[j].role = "user" =>
                t.user # NoText /\ t.added[j].text = Trim(t.user)
          /\ t.added[j].role = "ai" =>
                t.ai # NoText /\ t.added[j].text = Trim(t.ai)
    /\ Len(t.added) = 2 => t.added[1].role = "user" /\ t.added[2].role = "ai"
    /\ (t.user = NoText /\ t.ai = NoText) => t.added = <<>>
    /\ t.events = <<Event("start", NoText), Event("pu", <<"a">>),
                    Event("pu", <<"b">>), Event("pa", <<"x">>)>> =>
          t.added = <<[role |-> "user", text |-> <<"a", "b">>],
                      [role |-> "ai", text |-> <<"x">>]>>
    /\ Len(messages[i]) >= Len(t.added)
    /\ SubSeq(messages[i], Len(messages[i]) - Len(t.added) + 1, Len(messages[i]))
         = t.added

\* C9 witness: the scripted turn has been flushed in a fresh session.
C9_ScriptedTurnFlushed ==
  \E i \in AvInst :
    /\ lastTurn[i].events = <<Event("start", NoText), Event("pu", <<"a">>),
                              Event("pu", <<"b">>), Event("pa", <<"x">>)>>
    /\ messages[i] = <<Greeting, [role |-> "user", text |-> <<"a", "b">>],
                       [role |-> "ai", text |-> <<"x">>]>>

\* the partial a surface publishes for a role
Published(i, role) ==
  IF i = 0 THEN voiceTranscription[role]
  ELSE IF role = "user" THEN currentTurnUserText[i] ELSE currentTurnAiText[i]

\* C10: after a transcription fragment has been handled, the published
\* partial of its role is the concatenation of all fragments of that role
\* received since the last turn completion, on both surfaces.
C10_PartialIsConcatenation ==
  \A i \in Inst :
    /\ LastLogged(i, "pu") => Published(i, "user") = Heard(log[i], "pu")
    /\ LastLogged(i, "pa") => Published(i, "ai") = Heard(log[i], "pa")

\* C11: right after a turn-complete signal has been handled, both buffers of
\* the turn are empty and the published partials are cleared, on both
\* surfaces, whatever they held before.
C11_TurnCompleteClears ==
  \A i \in Inst :
    LastLogged(i, "tc") =>
      IF i = 0 THEN voiceTranscription = NoTranscription
      ELSE /\ userTextBuffer[i] = NoText
           /\ aiTextBuffer[i] = NoText
           /\ (view = "AI_ASSISTANT" /\ i = avCount) =>
                 /\ currentTurnUserText[i] = NoText
                 /\ currentTurnAiText[i] = NoText

\* C11 witness: a turn completion that found text in both buffers.
C11_FullBuffersCleared ==
  \E i \in AvInst :
    /\ LastLogged(i, "tc")
    /\ lastTurn[i].user # NoText
    /\ lastTurn[i].ai # NoText

----------------------------------------------------------------------------
\* Teardown properties

\* the place of a step in the order (a) stop forwarding frames, (b) release
\* the microphone, (c) close the connection, (d) clear the playback state,
\* (e) become inactive
StepRank(s) ==
  CASE s = "a" -> 1 [] s = "b" -> 2 [] s = "c" -> 3 [] s = "d" -> 4 [] OTHER -> 5

\* C12: the steps of a teardown that releases a session's microphone come
\* in the order (a), (b), (c), (d), (e), on both surfaces.
C12_TeardownInOrder ==
  \A i \in Inst :
    LET steps == teardown[i].steps IN
    (\E p \in DOMAIN steps : steps[p] = "b") =>
      \A p, q \in DOMAIN steps : p < q => StepRank(steps[p]) <= StepRank(steps[q])

\* the steps attempted by the last stop call of surface instance i
Attempted(i) == {teardown[i].steps[p] : p \in DOMAIN teardown[i].steps}

\* C13: every step that was due when a stop call began is attempted, even
\* when an earlier one throws: the capture node, the microphone tracks and
\* the playback state at once, the close of the session and the inactive
\* state once the session promise has resolved.
C13_AllStepsExecute ==
  \A i \in Inst :
    LET t == teardown[i] IN
    /\ (t.due \ {"c", "e"}) \subseteq Attempted(i)
    /\ (t.sess # 0 /\ promise[t.sess] = "fulfilled") => {"c", "e"} \subseteq Attempted(i)
    /\ (t.due # {} /\ t.sess = 0) => "e" \in Attempted(i)

\* the callbacks of stop calls waiting on session promise k
StopsWaiting(k) ==
  {j \in DOMAIN thenQ[k] : thenQ[k][j].type \in {"close", "stopLive", "stopLiveBack"}}

\* C14: a stop call disconnects the capture node and stops the microphone
\* tracks the surface refers to, and a repeated stop is a no-op: it
\* registers no second continuation that closes the session again.
C14_StopIdempotent ==
  /\ \A i \in Inst : (teardown[i].due \cap {"a", "b"}) \subseteq Attempted(i)
  /\ \A k \in Calls : Cardinality(StopsWaiting(k)) <= 1

\* surface instance i shows its session as inactive
Inactive(i) ==
  IF i = 0 THEN ~isVoiceActive
  ELSE (view = "AI_ASSISTANT" /\ i = avCount) => ~isLive[i]

\* C15: once the close callback of a session has been handled, its
\* microphone stream is released and its capture node disconnected; if it
\* is the session the surface refers to, the playback state is cleared and
\* the surface is inactive.
C15_RemoteCloseTearsDown ==
  \A k \in Calls :
    conn[k] = "closed" =>
      /\ stream[k] # "live"
      /\ proc[k] # "connected"
      /\ sessionPromiseRef[owner[k]] = k =>
            /\ sources[owner[k]] = {}
            /\ nextStartTime[owner[k]] = 0
            /\ Inactive(owner[k])

\* surface instance i shows an error message (the mini-companion has no
\* error state to show)
ErrorShown(i) ==
  IF i = 0 THEN FALSE
  ELSE (view = "AI_ASSISTANT" /\ i = avCount) => error[i] # "null"

\* C16: once a transport error of a session (while connecting or while
\* open) has been handled, its microphone stream is released, its capture
\* node disconnected, its connection no longer live, the playback state of
\* its surface cleared; until the user starts again, an error message is
\* shown and, if the session was open, the surface is inactive.
C16_FailureTearsDownAndReports ==
  \A k \in Calls :
    conn[k] = "failed" =>
      /\ stream[k] # "live"
      /\ proc[k] # "connected"
      /\ sources[owner[k]] = {}
      /\ (\A j \in CallsOf(owner[k]) : j <= k) =>
            /\ ErrorShown(owner[k])
            /\ promise[k] = "fulfilled" => Inactive(owner[k])

\* C17: when a start has failed on permission (getUserMedia rejected, or
\* no getUserMedia at all), that start holds no microphone stream, capture
\* node or connection and, until the user starts again, the surface is
\* inactive, shows an error message and holds no stream, node or connection.
C17_PermissionFailureReported ==
  \A k \in Calls :
    (k <= nCalls /\ pc[k] = "failed") =>
      /\ stream[k] = "none" /\ proc[k] = "none" /\ conn[k] = "none"
      /\ (\A j \in CallsOf(owner[k]) : j <= k) =>
            /\ Inactive(owner[k])
            /\ ErrorShown(owner[k])
            /\ \A j \in CallsOf(owner[k]) : Released(j)

\* the voice component of surface instance i is torn down: the assistant
\* view instance is unmounted, the mini-companion's voice effect is cleaned
\* up and not run again
TornDown(i) ==
  IF i = 0
  THEN ~(isAssistantOpen /\ assistantMode = "VOICE" /\ view # "AI_ASSISTANT")
  ELSE i <= avCount /\ ~(view = "AI_ASSISTANT" /\ i = avCount)

\* C18: once a voice component is torn down and a session it had started,
\* or was starting, has nothing pending any more, that session holds no
\* microphone stream and no open connection.
C18_TeardownStopsSession ==
  \A i \in Inst :
    TornDown(i) =>
      \A k \in CallsOf(i) :
        Settled(k) => stream[k] # "live" /\ conn[k] # "open"

----------------------------------------------------------------------------
\* Capture properties

\* the frames waiting on session promise k, in order
RECURSIVE FramesOf(_)
FramesOf(q) ==
  IF q = <<>> THEN <<>>
  ELSE (IF Head(q).type = "frame" THEN <<Head(q).media>> ELSE <<>>)
       \o FramesOf(Tail(q))
\* the frames handed to session k or waiting for it, in order
Forwarded(k) == sent[k] \o FramesOf(thenQ[k])
Silent(data) == \A n \in DOMAIN data : data[n] = 0

\* C19: the frames handed to a session, followed by those still waiting
\* for its promise, are exactly the frames its capture node produced, each
\* once, in capture order.
C19_FramesInOrder ==
  \A k \in Calls :
    /\ Len(Forwarded(k)) = Len(captured[k])
    /\ \A n \in DOMAIN captured[k] : Forwarded(k)[n] = createBlob(captured[k][n].data)

\* C19 witness: two different frames were captured before the session
\* promise resolved and one after it; all three have been handed over.
C19_EarlyFramesSent ==
  \E k \in Calls :
    /\ Len(sent[k]) = 3
    /\ captured[k][1].early /\ captured[k][2].early /\ ~captured[k][3].early
    /\ captured[k][1].data # captured[k][2].data

\* C20: in the assistant view every captured frame is forwarded whatever its
\* activity level, and a silent frame has level 0 and is forwarded as
\* all-zero samples.
C20_SilentFramesSent ==
  \A k \in Calls :
    owner[k] # 0 =>
      \A n \in DOMAIN captured[k] :
        /\ n <= Len(Forwarded(k))
        /\ Silent(captured[k][n].data) =>
              /\ captured[k][n].level = 0
              /\ Silent(decodeAudioData(decode(Forwarded(k)[n])))
        /\ captured[k][n].level = 0 => Silent(captured[k][n].data)

\* C20 witness: three consecutive silent frames, each with level 0, have
\* been handed to the session of the assistant view.
C20_ThreeSilentFrames ==
  \E k \in Calls :
    /\ owner[k] # 0
    /\ Len(sent[k]) = 3
    /\ \A n \in 1..3 : Silent(captured[k][n].data) /\ captured[k][n].level = 0
    /\ \A n \in 1..3 : Silent(decodeAudioData(decode(sent[k][n])))
    /\ micActivity[owner[k]] = 0

----------------------------------------------------------------------------
\* Codec properties

\* x and y, in units of 1/32768, are within one 16-bit quantization step
WithinOneStep(x, y) == x - y <= 1 /\ y - x <= 1

\* C21: decoding a frame that createBlob produced and the session was
\* handed (decode, then decodeAudioData) yields as many samples as were
\* captured, every one within one 16-bit quantization step of the captured
\* sample, for samples in [-1, 1] with both endpoints.
C21_RoundTrip ==
  \A k \in Calls : \A n \in DOMAIN captured[k] :
    n <= Len(Forwarded(k)) =>
      /\ ~decodeThrows(Forwarded(k)[n])
      /\ Len(decodeAudioData(decode(Forwarded(k)[n]))) = Len(captured[k][n].data)
      /\ \A j \in DOMAIN captured[k][n].data :
           WithinOneStep(decodeAudioData(decode(Forwarded(k)[n]))[j],
                         32768 * captured[k][n].data[j])

----------------------------------------------------------------------------
\* Message ordering properties

\* C22: while the handler of a message is suspended at an await, no handler
\* of a later message of its session has begun, the playback clock is as
\* the suspended handler left it and none of the sources that were active
\* then has been stopped.
C22_OneMessageAtATime ==
  \A i \in Inst : \A j \in DOMAIN pendingMsgs[i] :
    /\ ~pendingMsgs[i][j].overtaken
    /\ nextStartTime[i] = pendingMsgs[i][j].nst
    /\ \A n \in pendingMsgs[i][j].sources : src[n].state # "stopped"

\* the last event logged for surface instance i
LastEvent(i) == IF log[i] = <<>> THEN Event("none", NoText) ELSE log[i][Len(log[i])]

\* C23: after a message whose inline audio is malformed, no source has been
\* created for it, no error is shown, and the message's other part has been
\* handled (its transcription fragment, turn completion or interruption is
\* the last event of the surface).
C23_MalformedAudioIgnored ==
  \A i \in Inst : \A b \in {lastBad[i][j] : j \in DOMAIN lastBad[i]} :
    /\ Len(src) = b.nsrc
    /\ i # 0 => error[i] = "null"
    /\ b.m.inT # Absent => LastEvent(i) = Event("pu", b.m.inT[1])
    /\ b.m.outT # Absent => LastEvent(i) = Event("pa", b.m.outT[1])
    /\ b.m.turnComplete => LastEvent(i) = Event("tc", NoText)
    /\ b.m.interrupted => LastEvent(i) = Event("int", NoText)

----------------------------------------------------------------------------
\* Tool call properties

\* the tool names the application declares
Recognized(name) == ToolView(name) # "none" \/ name = "get_motivation"

\* C24: a tool call with an unrecognized name causes no navigation or other
\* local action, and every response sent for it carries a result other than
\* the success result "ok".
C24_UnknownToolUnsupported ==
  /\ \A name \in ToolNames : ~Recognized(name) => ToolAction(World, name) = World
  /\ \A n \in DOMAIN toolCalls :
       ~Recognized(toolCalls[n].name) =>
         \A j \in DOMAIN toolResponses :
           toolResponses[j].id = toolCalls[n].id => toolResponses[j].result # "ok"

----------------------------------------------------------------------------
\* Text-to-speech properties

\* C25: a call of handleSpeakText whose endpoint failed or returned no
\* audio has resolved to 0 without rejecting and has started no source, and
\* generateSpeech gave it an empty result without throwing.
C25_SoftSpeechFailure ==
  \A n \in DOMAIN speak :
    (speak[n].pc = "done" /\ speak[n].reply[1] \in {EndpointFails, Response(NoAudio)}) =>
      /\ speak[n].speech = Some([threw |-> FALSE, value |-> NoAudio])
      /\ speak[n].returned = Some(0)
      /\ speak[n].sources = 0

\* C25 witness: one call ended after the endpoint failed, another after a
\* response without audio, and both resolved to 0.
C25_BothFailuresSeen ==
  \E n1, n2 \in DOMAIN speak :
    /\ speak[n1].pc = "done" /\ speak[n1].reply = Some(EndpointFails)
    /\ speak[n2].pc = "done" /\ speak[n2].reply = Some(Response(NoAudio))
    /\ speak[n1].returned = Some(0) /\ speak[n2].returned = Some(0)

----------------------------------------------------------------------------
\* Active-sources properties

\* C26: the active-sources set of a surface holds exactly the sources that
\* were scheduled on it and whose completion callback has not run and that
\* no interruption or stop has cleared.
C26_ActiveSourcesExact ==
  \A i \in Inst :
    sources[i] = {n \in Chunks(i) : src[n].state = "scheduled" /\ ~src[n].cleared}

\* C26 witness: the completion callback of a source that an interruption
\* or stop had cleared has run while a source scheduled after the clearing
\* is in the set, and the set holds just that later source.
C26_LateCallbackHarmless ==
  \E i \in Inst, b, c \in DOMAIN src :
    /\ b < c
    /\ src[b].surf = i /\ src[b].cleared /\ src[b].state = "ended"
    /\ src[c].surf = i /\ src[c].state = "scheduled"
    /\ sources[i] = {c}

\* the last chunk scheduled on surface instance i (0: none)
LastChunk(i) == IF Chunks(i) = {} THEN 0 ELSE CHOOSE n \in Chunks(i) : \A q \in Chunks(i) : q <= n
\* the last two parts handled on surface instance i were an interruption and
\* then inline audio
AudioAfterInterrupt(i) ==
  /\ Len(log[i]) >= 2
  /\ log[i][Len(log[i]) - 1].type = "int"
  /\ log[i][Len(log[i])].type = "audio"

\* C27: the first chunk scheduled after an interruption is started with a
\* time that is not after the output clock at that moment, so it plays at
\* once whatever nextStartTime held before the interruption.
C27_PlaysAtOnceAfterInterrupt ==
  \A i \in Inst :
    AudioAfterInterrupt(i) => src[LastChunk(i)].start <= src[LastChunk(i)].at

\* C27 witness: a source due to play until after t was interrupted, and the
\* chunk that arrived next, at t > 0, started at t.
C27_StaleOffsetDropped ==
  \E i \in Inst, a \in DOMAIN src :
    /\ AudioAfterInterrupt(i)
    /\ src[a].surf = i /\ src[a].cleared /\ a < LastChunk(i)
    /\ EndOf(a) > src[LastChunk(i)].at
    /\ src[LastChunk(i)].at > 0
    /\ src[LastChunk(i)].start = src[LastChunk(i)].at

StopCompleted(i) ==
  /\ teardown[i].due # {} /\ "e" \in Attempted(i)
  /\ \A k \in CallsOf(i) :
       pc[k] \in {"failed", "done"} /\ conn[k] \notin {"connecting", "open"}

\* C29: after a stop has completed the playback state of the surface is
\* cleared: the active-sources set is empty, no source of the surface is
\* still scheduled, and nextStartTime is 0.
C29_StopClearsPlayback ==
  \A i \in Inst :
    StopCompleted(i) =>
      /\ sources[i] = {}
      /\ \A n \in Chunks(i) : src[n].state # "scheduled"
      /\ nextStartTime[i] = 0

\* a stop of the surface that started invocation k was invoked while the
\* connection-open of k was pending, it is still pending, and k is the only
\* start the surface has made
StoppedWhileConnecting(k) ==
  /\ k <= nCalls /\ promise[k] = "pending" /\ StopsWaiting(k) # {}
  /\ CallsOf(owner[k]) = {k}

\* C30: a surface whose stop was invoked while the connection-open is
\* pending is inactive (isVoiceActive / isLive false, the assistant view's
\* status MIRRORING INACTIVE) while the connection-open stays pending: the
\* stop does not wait for it.
C30_StopDoesNotWaitForOpen ==
  \A k \in Calls :
    StoppedWhileConnecting(k) =>
      IF owner[k] = 0 THEN ~isVoiceActive
      ELSE Mounted(World, owner[k]) =>
             ~isLive[owner[k]] /\ statusText[owner[k]] = "MIRRORING INACTIVE"

\* a transport error or a close event of some connection is handled in
\* this step
ErrorOrCloseHandled ==
  \E k \in Calls : conn'[k] # conn[k] /\ conn'[k] \in {"failed", "closed"}

NavigationTarget ==
  [generate_notes |-> "NOTES_GENERATOR", start_quiz |-> "QUIZ",
   show_history |-> "HISTORY", set_pomodoro |-> "POMODORO", go_home |-> "DASHBOARD"]

\* the tool call received in this step (<<>>: none)
ReceivedToolCall ==
  IF Len(toolCalls') > Len(toolCalls) THEN <<toolCalls'[Len(toolCalls')]>> ELSE <<>>

\* the step has done the local action of tool name
LocalActionDone(name) ==
  IF name = "get_motivation"
  THEN view' = view /\ motivationRequests' = motivationRequests + 1
  ELSE view' = NavigationTarget[name] /\ motivationRequests' = motivationRequests

\* C32: the step that handles a call of a recognized tool does the tool's
\* local action (a navigation tool sets its view, get_motivation requests a
\* motivation message and leaves the view) and sends a response with a
\* result string for the call.
C32_ToolMappedAndAnswered ==
  [][\A n \in DOMAIN ReceivedToolCall :
       LET fc == ReceivedToolCall[n] IN
       (fc.name \in DOMAIN NavigationTarget \cup {"get_motivation"}) =>
         /\ LocalActionDone(fc.name)
         /\ \E j \in DOMAIN toolResponses' :
              /\ toolResponses'[j].id = fc.id
              /\ toolResponses'[j].name = fc.name
              /\ toolResponses'[j].result = "ok"]_vars

----------------------------------------------------------------------------
\* Frame conditions

\* the active-sources sets, the playback clocks and the turn buffers (the
\* assistant view's refs, the mini-companion's transcription state)
PlaybackAndTurnState ==
  <<sources, nextStartTime, userTextBuffer, aiTextBuffer, voiceTranscription>>

\* the step is a capture callback
CaptureStep == framesLeft' # framesLeft
\* the step handles an inbound message (a transcript or turn completion, an
\* interruption, a tool call, or inline audio that starts a source)
MessageStep ==
  \/ msgsLeft' # msgsLeft
  \/ interruptsLeft' # interruptsLeft
  \/ toolCalls' # toolCalls
  \/ Len(src') > Len(src)
\* the step is the completion callback of a source the dispatch path started
CompletionStep ==
  \E n \in DOMAIN src : src'[n].state = "ended" /\ src[n].state # "ended"
\* the step runs a stop of some surface
StopStep ==
  \E i \in Inst : teardown'[i] # teardown[i] /\ teardown'[i].due # {}

\* C33: a capture callback leaves the active-sources set, the turn buffers
\* and the playback clock as they are; they change only in a step that
\* handles an inbound message, in the completion callback of a source, or
\* in a stop.
C33_CaptureLeavesPlayback ==
  [][/\ CaptureStep => PlaybackAndTurnState' = PlaybackAndTurnState
     /\ PlaybackAndTurnState' # PlaybackAndTurnState =>
          MessageStep \/ CompletionStep \/ StopStep]_vars

\* C33 as stated: the active-sources set, the turn buffers and the playback
\* clock change only on the inbound-message dispatch path (the completion
\* callbacks of its sources included), never in a capture callback.
C33_OnlyDispatchChangesPlayback ==
  [][/\ CaptureStep => PlaybackAndTurnState' = PlaybackAndTurnState
     /\ PlaybackAndTurnState' # PlaybackAndTurnState =>
          MessageStep \/ CompletionStep]_vars

\* C33 witness: a frame that is not silent was captured and handed to the
\* session while a source is scheduled, the playback clock is ahead and a
\* turn buffer holds text.
C33_CapturedDuringPlayback ==
  \E k \in Calls :
    /\ k <= nCalls /\ sent[k] # <<>> /\ captured[k][1].level > 0
    /\ sources[owner[k]] # {} /\ nextStartTime[owner[k]] > 0
    /\ IF owner[k] = 0 THEN voiceTranscription # NoTranscription
       ELSE userTextBuffer[owner[k]] # NoText

----------------------------------------------------------------------------
\* Message log properties

\* sequence p is a prefix of sequence q
IsPrefix(p, q) == Len(p) <= Len(q) /\ SubSeq(q, 1, Len(p)) = p

\* C34: in every step the message log of each assistant view instance keeps
\* the messages it holds, in their places, and grows only at its end and
\* only in a step that handles a turn completion.
C34_MessagesAppendOnly ==
  [][\A i \in AvInst :
       /\ IsPrefix(messages[i], messages'[i])
       /\ messages'[i] # messages[i] =>
            /\ msgsLeft' # msgsLeft
            /\ log'[i] = <<Event("tc", NoText)>>]_vars

\* C34 witness: two turns were flushed one after the other and the session
\* was then stopped; the log holds the greeting and both messages in order.
C34_TwoTurnsKept ==
  \E i \in AvInst :
    /\ Len(messages[i]) = 3
    /\ messages[i][1] = Greeting
    /\ messages[i][2] = [role |-> "user", text |-> <<"a">>]
    /\ messages[i][3] = [role |-> "user", text |-> <<"b">>]
    /\ teardown[i].due # {} /\ ~isLive[i]

----------------------------------------------------------------------------
\* Text-to-speech request properties

\* the smaller of two numbers
Min(a, b) == IF a <= b THEN a ELSE b

\* C35: the text sent to the text-to-speech endpoint is the input itself
\* when the input has at most 500 code units, else the first 500 code units
\* of the input followed by three dots.
C35_RequestTextCapped ==
  \A n \in DOMAIN speak :
    speak[n].request # Absent =>
      LET text == speak[n].text
          sentText == speak[n].request[1]
          kept == Min(Len(text), 500)
      IN /\ \A j \in 1..kept : sentText[j] = text[j]
         /\ IF Len(text) <= 500 THEN Len(sentText) = Len(text)
            ELSE /\ Len(sentText) = 503
                 /\ \A j \in 501..503 : sentText[j] = 46

\* C35 witness: one request was sent for a text longer than the cap and
\* one for a text of exactly 500 code units.
C35_LongAndFullTextsSent ==
  \E n1, n2 \in DOMAIN speak :
    /\ Len(speak[n1].text) > 500 /\ speak[n1].request # Absent
    /\ Len(speak[n2].text) = 500 /\ speak[n2].request = Some(speak[n2].text)

----------------------------------------------------------------------------
\* Resources of an inactive surface

\* surface instance i is on screen and shows its session as inactive
ReportsInactive(i) ==
  IF i = 0 THEN ~isVoiceActive
  ELSE view = "AI_ASSISTANT" /\ i = avCount /\ ~isLive[i]

\* no start call and no stop call of surface instance i is still running
NoCallInProgress(i) == \A k \in CallsOf(i) : Settled(k)

\* C36: whenever a surface reports its voice session inactive and no start
\* or stop call of it is still in progress, the surface holds no live
\* microphone stream, no connected capture node and no open connection.
C36_InactiveHoldsNothing ==
  \A i \in Inst :
    (ReportsInactive(i) /\ NoCallInProgress(i)) =>
      \A k \in CallsOf(i) :
        /\ stream[k] # "live"
        /\ proc[k] # "connected"
        /\ conn[k] # "open"

----------------------------------------------------------------------------
\* Audio of interrupted messages

\* the suspended handlers of surface instance i whose inline audio will be
\* played when they resume
Playable(i) ==
  {j \in DOMAIN pendingMsgs[i] : ~Malformed(pendingMsgs[i][j].m.audio)}
\* those whose session handled an interrupted signal while they waited
InterruptedWaiting(i) == {j \in Playable(i) : pendingMsgs[i][j].interrupted}

\* C37: the audio chunk of a message that arrived before an interrupted
\* signal is not started after that interruption has been handled: in the
\* step that resumes the suspended handlers of a surface, sources are
\* created for the handlers that were not interrupted only.
C37_InterruptedAudioDropped ==
  [][\A i \in Inst :
       (pendingMsgs[i] # <<>> /\ pendingMsgs'[i] = <<>>) =>
          Len(src') - Len(src) <= Cardinality(Playable(i) \ InterruptedWaiting(i))]_vars

----------------------------------------------------------------------------
\* Frames and stopped sessions

\* a stop call has closed connection k (session.close() has run; the close
\* event of the socket has not been handled yet)
ClosedByStop(k) == conn[k] = "closing"
\* a frame waits on session promise k behind the callback of a stop call
FrameBehindStop(k) ==
  \E p, q \in DOMAIN thenQ[k] :
    /\ p < q
    /\ p \in StopsWaiting(k)
    /\ thenQ[k][q].type = "frame"

\* C38: once a stop call has closed a connection no frame is submitted on
\* it, be it in a later step or behind the closing callback in the step that
\* closes it; and the frame a capture callback produces is handed to its own
\* session only.
C38_NoFrameAfterStop ==
  [][\A k \in Calls :
       /\ ClosedByStop(k) => sent'[k] = sent[k]
       /\ (~ClosedByStop(k) /\ ClosedByStop(k)') => ~FrameBehindStop(k)
       /\ Len(captured'[k]) > Len(captured[k]) =>
            \A j \in Calls \ {k} : sent'[j] = sent[j] /\ FramesOf(thenQ'[j]) = FramesOf(thenQ[j])]_vars

----------------------------------------------------------------------------
\* Tool calls and the session that issued them

\* C39: the step that handles a navigation tool call issued by a session of
\* the mini-companion whose microphone stream is live leaves that session
\* running: its connection is still open and its stream still live.
C39_ToolKeepsSession ==
  [][\A n \in DOMAIN ReceivedToolCall :
       LET fc == ReceivedToolCall[n] IN
       (/\ owner[fc.sess] = 0
        /\ fc.name \in DOMAIN NavigationTarget
        /\ stream[fc.sess] = "live") =>
          /\ conn'[fc.sess] = "open"
          /\ stream'[fc.sess] = "live"]_vars

----------------------------------------------------------------------------
\* Focus timer properties

\* C40: in the focus timer timeLeft is never negative; it is lowered only
\* by a step taken while the timer is active or by the choice of a mode,
\* which sets it to that mode's full duration and stops the timer; and the
\* tick that takes it to 0 stops the timer, toggles the mode and sets
\* timeLeft to the full duration of the new mode (1500 for FOCUS, 300 for
\* BREAK), with no interval left.
C40_TimerCountsDownAndToggles ==
  /\ [](timeLeft >= 0)
  /\ [][/\ timeLeft' < timeLeft =>
              \/ isActive
              \/ ~isActive' /\ timeLeft' = (IF mode' = "FOCUS" THEN 1500 ELSE 300)
        /\ (PomodoroTick /\ timeLeft = 1) =>
              /\ ~isActive'
              /\ ~interval'
              /\ mode' = (IF mode = "FOCUS" THEN "BREAK" ELSE "FOCUS")
              /\ timeLeft' = (IF mode' = "FOCUS" THEN 1500 ELSE 300)]_vars

\* C40 as stated: timeLeft is never negative and is lowered only in a step
\* taken while the timer is active; the tick that takes it to 0 stops the
\* timer, toggles the mode and sets timeLeft to the new mode's full duration.
C40_DecreasesOnlyWhileActive ==
  /\ [](timeLeft >= 0)
  /\ [][/\ timeLeft' < timeLeft => isActive
        /\ (PomodoroTick /\ timeLeft = 1) =>
              /\ ~isActive'
              /\ mode' = (IF mode = "FOCUS" THEN "BREAK" ELSE "FOCUS")
              /\ timeLeft' = (IF mode' = "FOCUS" THEN 1500 ELSE 300)]_vars

\* C40 witness: a break has run to its end: the alert for it was the last
\* one shown and the timer shows a full focus session, stopped, with no
\* interval set.
C40_BreakEnded ==
  /\ view = "POMODORO"
  /\ lastAlert = "focus"
  /\ mode = "FOCUS"
  /\ timeLeft = 1500
  /\ ~isActive
  /\ ~interval

====
